---- MODULE Spec2Model ----
(***************************************************************************)
(* SwiftTrack order backbone: the saga orchestrator of the integration     *)
(* service, the retry / dead-letter consumer of the shared event bus       *)
(* client, the status reactor and auto-assigner of the order service.      *)
(*                                                                         *)
(* The specifications share the variables:                                 *)
(*   Spec            one order, its order.created message, the saga        *)
(*                   handler, the status reactor and the order store;      *)
(*   SpecFair        Spec with consumers and handlers that keep running;   *)
(*   SpecReactors    one saga run, several Reactor instances;              *)
(*   SpecSaga        execute_order_saga alone, on every probe result;      *)
(*   SpecHandler     a saga run and the events its handler publishes;      *)
(*   SpecProtocol    the same on every answer of CMS and WMS;              *)
(*   SpecRetry       consume_with_retry with a handler that may raise      *)
(*   SpecRetryFailure  the same, with a publish to the DLQ that may fail   *)
(*                   (SpecRetryFair adds the scheduling fairness);         *)
(*   SpecOrder       the order service alone: status events and driver     *)
(*                   status updates of one order;                          *)
(*   SpecUnhandled   status events and messages without transition;        *)
(*   SpecRedelivery  status events with lost acks and redelivery;          *)
(*   SpecTransition  update_order_status called with any status and id;    *)
(*   SpecWebSocket   the WebSocket registry and the notification bridge;   *)
(*   SpecPatch       PATCH requests with every status and order id;        *)
(*   SpecAttempts    delivery requests of several sessions for one order;  *)
(*   SpecBalance     pickup assignments of several Reactor instances;      *)
(*   SpecDelivery    the driver status updates alone;                      *)
(*   SpecAssign      assign_driver over rosters and other orders;          *)
(*   SpecConcurrent  update_order_status called from several sessions;     *)
(*   SpecTermination one order.created and the consumers of all queues;    *)
(*   SpecCorrelation the correlation ids of published and consumed events. *)
(***************************************************************************)
EXTENDS Integers, Sequences, FiniteSets, TLC

VARIABLES
    queues,     \* per service queue: the published events waiting in it
    uuids,      \* correlation ids generated with uuid4 so far
    sent,       \* every message handed to the swifttrack.events exchange
    returned,   \* what the last call of update_order_status, or the last
                \* PATCH request, returned: << >> for None, <<row>> for the
                \* order, <<exception>> for a raised HTTPException
    connections,\* _connections of the gateway: client_id -> list of sessions
    ws,         \* per WebSocket session: its position and what it received
    bcast,      \* position and locals of _handle_ws_event / broadcast_to_all
    roster,     \* settings.driver_usernames, parsed by get_drivers_list
    others,     \* the rows of the other orders in the orders table
    held,       \* per Reactor instance: the status event it is handling
    unacked,    \* status events handled whose ack has not reached the broker
    order,      \* the Order row (status history is its child collection)
    statusQ,    \* queue order_service.status_updates
    notifs,     \* notification.status_changed events published so far
    reactor,    \* position of _handle_status_update
    txn,        \* per session: the update_order_status call it has open
    mainQ,      \* the consume_with_retry main queue
    retryQ,     \* {queue}.retry
    dlqQ,       \* {queue}.dlq
    cons,       \* position of _process_with_retry and its message
    saga,       \* position and locals of execute_order_saga / _handle_order_created
    extCalls,   \* references handed out so far by CMS, WMS and ROS
    runs,       \* success flag of every saga run the handler has finished
    published,  \* messages published to the consumed queue so far
    seen,       \* per message: the retry_count of each handler run
    fate        \* per message: "none", "live", "acked", "dlq" or "dropped"

vars == <<queues, uuids, sent, returned, connections, ws, bcast, roster,
          others, held, unacked, order, statusQ,
          notifs, reactor, txn, mainQ, retryQ, dlqQ, cons, saga, extCalls,
          runs, published, seen, fate>>

corrVars  == <<queues, uuids, sent>>
wsVars    == <<connections, ws, bcast>>
apiVars   == <<returned, wsVars>>
storeVars == <<corrVars, apiVars, roster, others, held, unacked, order, statusQ, notifs,
               reactor, txn>>
busVars   == <<mainQ, retryQ, dlqQ, cons, published, seen, fate>>
sagaVars  == <<saga, extCalls, runs>>

----------------------------------------------------------------------------
\* Bounds

\* deliveries of the one order.created message (first delivery included)
MaxDeliveries == 2
\* messages published to the retry consumer in SpecRetry
NumMsgs == 2
\* cap of the broker's x-death counter
MaxDeath == 5
\* sessions that run update_order_status at the same time (SpecConcurrent)
NumSessions == 2
\* transitions of the order in SpecConcurrent
MaxTransitions == 3
\* status events published in SpecOrder
MaxEvents == 2
\* notification events pushed to the WebSocket bridge in SpecWebSocket
MaxPushes == 2
\* calls of update_order_status for the stored order in SpecTransition
MaxUpdates == 2
\* history entries after which no further driver update is sent in SpecOrder
MaxHistory == 3
\* the same in SpecDelivery
MaxDeliveryHistory == 5
\* rows of other orders in SpecAssign
MaxOthers == 2
\* calls of publish_event and publish by other callers in SpecCorrelation
MaxCalls == 1

----------------------------------------------------------------------------
\* Constants of the program

None == "None"

max_retries == 3

MainQueue == "integration_service.order_created"
RetryQueue == "integration_service.order_created.retry"
ServiceName == "integration_service"
RoutingKey == "order.created"

DefaultRoster == <<"driver1", "driver2", "driver3">>
RosterChoices == {<< >>, DefaultRoster}

OrderStatus ==
    {"PENDING", "CMS_REGISTERED", "WMS_RECEIVED", "ROUTE_OPTIMIZED", "READY",
     "PICKUP_ASSIGNED", "PICKING_UP", "PICKED_UP", "AT_WAREHOUSE",
     "OUT_FOR_DELIVERY", "DELIVERY_ATTEMPTED", "DELIVERED", "FAILED",
     "CANCELLED"}

STATUS_ORDER_by_name ==
    <<"CMS_REGISTERED", "PENDING", "READY", "ROUTE_OPTIMIZED", "WMS_RECEIVED">>

STATUS_ORDER ==
    <<"PENDING", "CMS_REGISTERED", "WMS_RECEIVED", "ROUTE_OPTIMIZED", "READY">>

SagaSteps == <<"CMS_REGISTERED", "WMS_RECEIVED", "ROUTE_OPTIMIZED">>

\* the statuses the callers of SpecConcurrent hand to update_order_status:
\* two of the Reactor, one of a driver update
CalledStatuses == {"CMS_REGISTERED", "WMS_RECEIVED", "PICKING_UP"}

----------------------------------------------------------------------------
\* Helpers on sequences

InSeq(seq, x) == \E i \in 1..Len(seq) : seq[i] = x

\* list.index(x): the first position of x
IndexOf(seq, x) ==
    CHOOSE i \in 1..Len(seq) :
        seq[i] = x /\ \A j \in 1..(i - 1) : seq[j] # x

IsPrefixOf(s, t) ==
    Len(s) <= Len(t) /\ \A i \in 1..Len(s) : s[i] = t[i]

----------------------------------------------------------------------------
\* Saga orchestrator (integration_service/app/services/saga.py)

step_already_done_strict(current_status, step_status) ==
    IF current_status = None THEN FALSE
    ELSE IF InSeq(STATUS_ORDER, current_status) /\ InSeq(STATUS_ORDER, step_status)
         THEN IndexOf(STATUS_ORDER, current_status) > IndexOf(STATUS_ORDER, step_status)
         ELSE FALSE

step_already_done(current_status, step_status) ==
    IF current_status = None THEN FALSE
    ELSE IF InSeq(STATUS_ORDER, current_status) /\ InSeq(STATUS_ORDER, step_status)
         THEN IndexOf(STATUS_ORDER, current_status) >= IndexOf(STATUS_ORDER, step_status)
         ELSE FALSE

SagaResult ==
    [success |-> FALSE, cms_reference |-> None, wms_reference |-> None,
     route_id |-> None, error |-> None,
     completed_steps |-> << >>, skipped_steps |-> << >>]

IdleSaga ==
    [pc |-> "idle", current_status |-> None, result |-> SagaResult,
     calls |-> << >>, failed_step |-> 0, comp_failed |-> {}, pub |-> 1]

\* the references the mocks hand out: a fresh one per call
CmsRef(n) == "CMS-" \o ToString(n)
WmsRef(n) == "WMS-" \o ToString(n)
RouteRef(n) == "RT-" \o ToString(n)

skip_step_not_completed(res, step) ==
    [res EXCEPT !.skipped_steps = Append(@, step)]

\* a skipped step is recorded as skipped and as completed
skip_step(res, step) ==
    [res EXCEPT !.skipped_steps = Append(@, step),
                !.completed_steps = Append(@, step)]

StepError(k) ==
    CASE k = 1 -> "CMS registration failed"
      [] k = 2 -> "WMS add package failed"
      [] k = 3 -> "ROS route optimisation failed"

after_failure_no_wms_cancel(k) ==
    CASE k = 1 -> "publish"
      [] k = 2 -> "compensate_cms"
      [] k = 3 -> "compensate_cms"

\* where execute_order_saga goes after the except branch of step k
after_failure(k) ==
    CASE k = 1 -> "publish"
      [] k = 2 -> "compensate_cms"
      [] k = 3 -> "compensate_wms"

compensation_failed_masks(res) ==
    [res EXCEPT !.error = "compensation failed"]

\* the except branch of _compensate_cms / _compensate_wms only logs
compensation_failed(res) == res

\* result = SagaResult(...); current_status = await _fetch_order_status(...)
fetch_order_status ==
    /\ cons.pc = "handler"
    /\ saga.pc = "idle"
    /\ \E found \in BOOLEAN :
         saga' = [IdleSaga EXCEPT
                    !.pc = "step1",
                    !.current_status = IF found THEN order.status ELSE None]
    /\ UNCHANGED <<storeVars, busVars, extCalls, runs>>

\* what CMS answers to a RegisterOrderRequest: the response with a new
\* CmsReference, a 2xx response without one (a SOAP fault sent with status
\* 200), or an HTTP error
cms_response(kind, n) ==
    CASE kind = "registered" -> [status_code |-> 200, CmsReference |-> CmsRef(n)]
      [] kind = "no_reference" -> [status_code |-> 200]
      [] kind = "http_error" -> [status_code |-> 500]

CmsResponseKinds == {"registered", "no_reference", "http_error"}

\* cms_client.register_order: raise_for_status, then the reference searched
\* in the response text
register_order(response) ==
    IF response.status_code \notin 200..299
    THEN [raised |-> TRUE]
    ELSE [raised |-> FALSE,
          cms_reference |-> IF "CmsReference" \in DOMAIN response
                            THEN response.CmsReference ELSE "UNKNOWN"]

\* what WMS answers to ADD_PACKAGE, split at "|": the ACK with a new
\* reference, an ERR line, an ACK line that is too short, or no connection
wms_reply(kind, n) ==
    CASE kind = "ack" -> <<"ACK", "ADD_PACKAGE", "o1", WmsRef(n), "RECEIVED">>
      [] kind = "err" -> <<"ERR", "ADD_PACKAGE", "Missing order_id">>
      [] kind = "short_ack" -> <<"ACK", "ADD_PACKAGE", "o1">>
      [] kind = "refused" -> << >>

WmsReplyKinds == {"ack", "err", "short_ack", "refused"}

\* wms_client.add_package
add_package(parts) ==
    IF parts # << >> /\ parts[1] = "ACK" /\ Len(parts) >= 4
    THEN [raised |-> FALSE, wms_reference |-> parts[4]]
    ELSE [raised |-> TRUE]

\* step 1 with the call made and answered
saga_step_1_call(kind) ==
    /\ saga.pc = "step1"
    /\ ~step_already_done(saga.current_status, "CMS_REGISTERED")
    /\ LET cms_result == register_order(cms_response(kind, extCalls.cms + 1))
       IN  /\ extCalls' = [extCalls EXCEPT
                             !.cms = IF kind = "registered" THEN @ + 1 ELSE @]
           /\ saga' = IF ~cms_result.raised
                  THEN [saga EXCEPT
                          !.calls = Append(@, "cms.register"),
                          !.result.cms_reference = cms_result.cms_reference,
                          !.result.completed_steps = Append(@, "CMS_REGISTERED"),
                          !.pc = "step2"]
                  ELSE [saga EXCEPT
                          !.calls = Append(@, "cms.register"),
                          !.result.error = StepError(1),
                          !.failed_step = 1,
                          !.pc = after_failure(1)]
    /\ UNCHANGED <<storeVars, busVars, runs>>

saga_step_1(kinds) ==
    /\ saga.pc = "step1"
    /\ IF step_already_done(saga.current_status, "CMS_REGISTERED")
       THEN /\ saga' = [saga EXCEPT
                          !.result = skip_step(@, "CMS_REGISTERED"),
                          !.pc = "step2"]
            /\ UNCHANGED <<extCalls, storeVars, busVars, runs>>
       ELSE \E kind \in kinds : saga_step_1_call(kind)

\* step 1 against the CMS of the deployment, which answers with a reference
\* or not at all
saga_step_1_cms == saga_step_1({"registered", "http_error"})

\* step 2 with the call made and answered
saga_step_2_call(kind) ==
    /\ saga.pc = "step2"
    /\ ~step_already_done(saga.current_status, "WMS_RECEIVED")
    /\ LET wms_result == add_package(wms_reply(kind, extCalls.wms + 1))
       IN  /\ extCalls' = [extCalls EXCEPT
                             !.wms = IF kind = "ack" THEN @ + 1 ELSE @]
           /\ saga' = IF ~wms_result.raised
                  THEN [saga EXCEPT
                          !.calls = Append(@, "wms.add"),
                          !.result.wms_reference = wms_result.wms_reference,
                          !.result.completed_steps = Append(@, "WMS_RECEIVED"),
                          !.pc = "step3"]
                  ELSE [saga EXCEPT
                          !.calls = Append(@, "wms.add"),
                          !.result.error = StepError(2),
                          !.failed_step = 2,
                          !.pc = after_failure(2)]
    /\ UNCHANGED <<storeVars, busVars, runs>>

saga_step_2(kinds) ==
    /\ saga.pc = "step2"
    /\ IF step_already_done(saga.current_status, "WMS_RECEIVED")
       THEN /\ saga' = [saga EXCEPT
                          !.result = skip_step(@, "WMS_RECEIVED"),
                          !.pc = "step3"]
            /\ UNCHANGED <<extCalls, storeVars, busVars, runs>>
       ELSE \E kind \in kinds : saga_step_2_call(kind)

\* step 2 against the WMS of the deployment, up or down
saga_step_2_wms == saga_step_2({"ack", "refused"})

\* the two steps on every answer of the protocols
saga_step_1_any_response == saga_step_1(CmsResponseKinds)

saga_step_2_any_reply == saga_step_2(WmsReplyKinds)

saga_step_3_ros ==
    /\ saga.pc = "step3"
    /\ IF step_already_done(saga.current_status, "ROUTE_OPTIMIZED")
       THEN /\ saga' = [saga EXCEPT
                          !.result = [skip_step(@, "ROUTE_OPTIMIZED")
                                        EXCEPT !.success = TRUE],
                          !.pc = "publish"]
            /\ UNCHANGED extCalls
       ELSE \E ok \in BOOLEAN :
            /\ extCalls' = [extCalls EXCEPT !.ros = IF ok THEN @ + 1 ELSE @]
            /\ saga' = IF ok
                   THEN [saga EXCEPT
                           !.calls = Append(@, "ros.optimize"),
                           !.result.route_id = RouteRef(extCalls'.ros),
                           !.result.completed_steps = Append(@, "ROUTE_OPTIMIZED"),
                           !.result.success = TRUE,
                           !.pc = "publish"]
                   ELSE [saga EXCEPT
                           !.calls = Append(@, "ros.optimize"),
                           !.result.error = StepError(3),
                           !.failed_step = 3,
                           !.pc = after_failure(3)]
    /\ UNCHANGED <<storeVars, busVars, runs>>

compensate_wms ==
    /\ saga.pc = "compensate_wms"
    /\ \E ok \in BOOLEAN :
         saga' = [saga EXCEPT
                    !.calls = Append(@, "wms.cancel"),
                    !.result = IF ok THEN @ ELSE compensation_failed(@),
                    !.comp_failed = IF ok THEN @ ELSE @ \cup {"wms.cancel"},
                    !.pc = "compensate_cms"]
    /\ UNCHANGED <<storeVars, busVars, extCalls, runs>>

compensate_cms ==
    /\ saga.pc = "compensate_cms"
    /\ \E ok \in BOOLEAN :
         saga' = [saga EXCEPT
                    !.calls = Append(@, "cms.cancel"),
                    !.result = IF ok THEN @ ELSE compensation_failed(@),
                    !.comp_failed = IF ok THEN @ ELSE @ \cup {"cms.cancel"},
                    !.pc = "publish"]
    /\ UNCHANGED <<storeVars, busVars, extCalls, runs>>

----------------------------------------------------------------------------
\* Order store (order_service/app/services/order_service.py)

NoFields == [f \in {} |-> None]

\* create_order: the row in PENDING and its (null -> PENDING) history entry
create_order ==
    [status |-> "PENDING", cms_reference |-> None, wms_reference |-> None,
     route_id |-> None, pickup_driver_id |-> None, delivery_driver_id |-> None,
     delivery_attempts |-> 0, max_delivery_attempts |-> 3,
     history |-> <<[old_status |-> None, new_status |-> "PENDING"]>>]

write_transition_quiet(o, old_status, new_status, extra_fields) ==
    [f \in DOMAIN o |->
        IF f = "history"
        THEN IF old_status = new_status THEN o.history
             ELSE Append(o.history,
                         [old_status |-> old_status, new_status |-> new_status])
        ELSE IF f \in DOMAIN extra_fields THEN extra_fields[f]
        ELSE IF f = "status" THEN new_status
        ELSE o[f]]

\* what update_order_status commits to the row o: the new status, the extra
\* fields and one history entry that carries the status read by its select
write_transition(o, old_status, new_status, extra_fields) ==
    [f \in DOMAIN o |->
        IF f = "history"
        THEN Append(o.history,
                    [old_status |-> old_status, new_status |-> new_status])
        ELSE IF f \in DOMAIN extra_fields THEN extra_fields[f]
        ELSE IF f = "status" THEN new_status
        ELSE o[f]]

update_order_status_terminal(o, new_status, extra_fields) ==
    IF o.status \in {"DELIVERED", "CANCELLED"} THEN o
    ELSE write_transition(o, o.status, new_status, extra_fields)

\* update_order_status run without interruption: select and commit in one
\* step; no legality check
update_order_status(o, new_status, extra_fields) ==
    write_transition(o, o.status, new_status, extra_fields)

\* the extra_fields handed to a call: none, a reference, and the columns of
\* a driver update together with a key that is no attribute of Order
ExtraFieldChoices ==
    {NoFields,
     [cms_reference |-> "ref-1"],
     [pickup_driver_id |-> "driver2", delivery_attempts |-> 1,
      no_such_column |-> "x"]}

\* update_order_status(session, order_id=..., new_status=...,
\* extra_fields=...) called by any caller: "o1" is the id of the stored
\* order, every other id selects no row and the call returns None
update_order_status_call(order_id, new_status, extra_fields) ==
    /\ Len(order.history) <= MaxUpdates
    /\ IF order_id = "o1"
       THEN /\ order' = update_order_status(order, new_status, extra_fields)
            /\ returned' = <<order'>>
       ELSE /\ order' = order
            /\ returned' = << >>
    /\ UNCHANGED <<corrVars, wsVars, roster, others, held, unacked, statusQ,
                   notifs, reactor, txn, busVars, sagaVars>>

any_update_order_status_call ==
    \E order_id \in {"o1", "o2"}, new_status \in OrderStatus,
       extra_fields \in ExtraFieldChoices :
        update_order_status_call(order_id, new_status, extra_fields)

\* update_order_status in a session of its own, interleaved with the calls of
\* other sessions (several replicas, or coroutines of one event loop, each
\* suspended at its awaits)
Sessions == 1..NumSessions

IdleTxn == [pc |-> "idle", old_status |-> None, new_status |-> None]

OpenTxns == Cardinality({w \in Sessions : txn[w].pc # "idle"})

\* the select: "old_status = order.status"
select_order(w) ==
    /\ txn[w].pc = "idle"
    /\ Len(order.history) - 1 + OpenTxns < MaxTransitions
    /\ \E new_status \in CalledStatuses :
         txn' = [txn EXCEPT ![w] = [pc |-> "selected",
                                    old_status |-> order.status,
                                    new_status |-> new_status]]
    /\ UNCHANGED <<corrVars, apiVars, roster, others, unacked, held, order, statusQ, notifs, reactor, busVars, sagaVars>>

\* "order.status = new_status; session.add(history); session.commit()": the
\* UPDATE carries the columns this session changed, the INSERT the status it
\* read
commit_transition(w) ==
    /\ txn[w].pc = "selected"
    /\ order' = write_transition(order, txn[w].old_status, txn[w].new_status,
                                 NoFields)
    /\ txn' = [txn EXCEPT ![w] = IdleTxn]
    /\ UNCHANGED <<corrVars, apiVars, roster, others, unacked, held, statusQ, notifs, reactor, busVars, sagaVars>>

----------------------------------------------------------------------------
\* Auto-assigner (order_service/app/services/auto_assign.py)

\* the orders table: the order and the other rows
StoredOrders == <<order>> \o others

ActiveStatuses(driver_type) ==
    IF driver_type = "pickup"
    THEN {"PICKUP_ASSIGNED", "PICKING_UP", "PICKED_UP"}
    ELSE {"OUT_FOR_DELIVERY", "DELIVERY_ATTEMPTED"}

DriverOf(o, driver_type) ==
    IF driver_type = "pickup" THEN o.pickup_driver_id ELSE o.delivery_driver_id

\* the group-by count of active orders of a driver
driver_counts(d, driver_type) ==
    Cardinality({i \in 1..Len(StoredOrders) :
                    /\ StoredOrders[i].status \in ActiveStatuses(driver_type)
                    /\ DriverOf(StoredOrders[i], driver_type) = d})

selected_driver_last_tie(driver_usernames, driver_type) ==
    driver_usernames[
        CHOOSE i \in 1..Len(driver_usernames) :
            /\ \A j \in 1..Len(driver_usernames) :
                 driver_counts(driver_usernames[i], driver_type)
                   <= driver_counts(driver_usernames[j], driver_type)
            /\ \A j \in (i + 1)..Len(driver_usernames) :
                 driver_counts(driver_usernames[j], driver_type)
                   > driver_counts(driver_usernames[i], driver_type)]

\* min(driver_counts.items(), key=count): the first roster entry of least load
selected_driver(driver_usernames, driver_type) ==
    driver_usernames[
        CHOOSE i \in 1..Len(driver_usernames) :
            /\ \A j \in 1..Len(driver_usernames) :
                 driver_counts(driver_usernames[i], driver_type)
                   <= driver_counts(driver_usernames[j], driver_type)
            /\ \A j \in 1..(i - 1) :
                 driver_counts(driver_usernames[j], driver_type)
                   > driver_counts(driver_usernames[i], driver_type)]

\* assign_driver: the order object with the driver field set (not yet
\* committed); unchanged for an empty roster
assign_driver(o, driver_type) ==
    IF roster = << >> THEN o
    ELSE IF driver_type = "pickup"
         THEN [o EXCEPT !.pickup_driver_id = selected_driver(roster, "pickup")]
         ELSE [o EXCEPT !.delivery_driver_id = selected_driver(roster, "delivery")]

\* one call of assign_driver for the order, for either phase
assign_driver_call(driver_type) ==
    /\ order' = assign_driver(order, driver_type)
    /\ UNCHANGED <<corrVars, apiVars, roster, others, unacked, held, statusQ, notifs, reactor, txn, busVars,
                   sagaVars>>

\* the rosters and the rows of other orders drawn in SpecAssign: a driver
\* that is on no roster included
AssignRosters == {<<"driver1">>, <<"driver3", "driver1">>, DefaultRoster}

OtherStatuses ==
    {"READY", "PICKUP_ASSIGNED", "PICKED_UP", "OUT_FOR_DELIVERY",
     "DELIVERY_ATTEMPTED", "DELIVERED"}

OtherDrivers == {"driver1", "driver2", "driver3", "driver9"}

OtherOrder(st, d) ==
    [create_order EXCEPT !.status = st, !.pickup_driver_id = d,
                         !.delivery_driver_id = d]

OtherOrders == {OtherOrder(st, d) : st \in OtherStatuses, d \in OtherDrivers}

OtherTables ==
    UNION {[1..n -> OtherOrders] : n \in 0..MaxOthers}

----------------------------------------------------------------------------
\* order.created handler (integration_service/app/services/rabbitmq.py)

EventOf_step_name(step) == "order." \o step

\* f"order.{step.lower()}"
EventOf(step) ==
    CASE step = "CMS_REGISTERED" -> "order.cms_registered"
      [] step = "WMS_RECEIVED" -> "order.wms_received"
      [] step = "ROUTE_OPTIMIZED" -> "order.route_optimized"

RefFieldOf_of_next_step(step) ==
    CASE step = "CMS_REGISTERED" -> "wms_reference"
      [] step = "WMS_RECEIVED" -> "route_id"
      [] step = "ROUTE_OPTIMIZED" -> "cms_reference"

\* the field of the result that the event of a step carries
RefFieldOf(step) ==
    CASE step = "CMS_REGISTERED" -> "cms_reference"
      [] step = "WMS_RECEIVED" -> "wms_reference"
      [] step = "ROUTE_OPTIMIZED" -> "route_id"

step_event_no_reference(res, step) ==
    [event |-> EventOf(step), order_id |-> "o1"]

\* event_data of a completed step: the reference only when the run has one
step_event(res, step) ==
    IF res[RefFieldOf(step)] # None
    THEN (RefFieldOf(step) :> res[RefFieldOf(step)])
           @@ [event |-> EventOf(step), order_id |-> "o1"]
    ELSE [event |-> EventOf(step), order_id |-> "o1"]

\* one iteration of "for step in result.completed_steps: publish_event"
publish_step_event ==
    /\ saga.pc = "publish"
    /\ saga.pub <= Len(saga.result.completed_steps)
    /\ statusQ' = Append(statusQ,
                         step_event(saga.result,
                                    saga.result.completed_steps[saga.pub]))
    /\ saga' = [saga EXCEPT
                  !.pub = @ + 1,
                  !.pc = IF saga.pub = Len(saga.result.completed_steps)
                            /\ saga.result.success
                         THEN "return" ELSE "publish"]
    /\ UNCHANGED <<corrVars, apiVars, roster, others, unacked, held, order, notifs, reactor, txn, busVars, extCalls, runs>>

\* "if not result.success: publish order.saga_failed"
publish_saga_failed ==
    /\ saga.pc = "publish"
    /\ saga.pub > Len(saga.result.completed_steps)
    /\ ~saga.result.success
    /\ statusQ' = Append(statusQ,
                         [event |-> "order.saga_failed", order_id |-> "o1",
                          error |-> saga.result.error,
                          completed_steps |-> saga.result.completed_steps])
    /\ saga' = [saga EXCEPT !.pc = "return"]
    /\ UNCHANGED <<corrVars, apiVars, roster, others, unacked, held, order, notifs, reactor, txn, busVars, extCalls, runs>>

----------------------------------------------------------------------------
\* Status reactor (order_service/app/services/rabbitmq.py)

status_map(event) ==
    CASE event = "order.cms_registered" -> <<"CMS_REGISTERED", "cms_reference">>
      [] event = "order.wms_received" -> <<"WMS_RECEIVED", "wms_reference">>
      [] event = "order.route_optimized" -> <<"ROUTE_OPTIMIZED", "route_id">>
      [] event = "order.saga_failed" -> <<"FAILED", None>>

KnownEvents ==
    {"order.cms_registered", "order.wms_received", "order.route_optimized",
     "order.saga_failed"}

reactor_status_unmapped(body) == status_map(body.event)[1]

\* the status written for an event: route_optimized is stored as READY
reactor_status(body) ==
    IF body.event = "order.route_optimized" THEN "READY"
    ELSE status_map(body.event)[1]

reactor_extra_fields_none(body) == NoFields

\* extra_fields: the reference of the event's row, when the body carries it
reactor_extra_fields(body) ==
    LET ref_field == status_map(body.event)[2]
    IN  IF ref_field # None /\ ref_field \in DOMAIN body
        THEN (ref_field :> body[ref_field])
        ELSE NoFields

\* order ids an event can carry besides the id of the stored order: the
\* well-formed id of no order, and a string that is no UUID
UnknownId == "o2"
MalformedId == "not-a-uuid"

\* body.get(key, default)
body_get(body, key, default) ==
    IF key \in DOMAIN body THEN body[key] ELSE default

\* "if not order_id_str": the handler logs missing_order_id and returns
missing_order_id(body) == body_get(body, "order_id", None) \in {None, ""}

\* "order_id = uuid.UUID(order_id_str)" raises ValueError
handler_raises_error(body) ==
    /\ ~missing_order_id(body)
    /\ body.order_id = MalformedId

\* "if event not in status_map": the handler logs unknown_event and returns
unknown_event(body) == body_get(body, "event", "") \notin KnownEvents

\* the handler ends before update_order_status changes anything: one of the
\* two early returns, the ValueError (raised before the event is looked up),
\* or an id that no stored order has
no_status_update(body) ==
    \/ missing_order_id(body)
    \/ handler_raises_error(body)
    \/ unknown_event(body)
    \/ body.order_id # "o1"

message_process_requeue_failed(queue, handler_failed) ==
    IF handler_failed THEN queue ELSE Tail(queue)

\* _process of consume: the handler runs inside "async with
\* message.process()" and its exception is caught and logged inside that
\* scope, so the scope ends normally and the message is acked, whether or
\* not the handler failed
message_process(queue, handler_failed) == Tail(queue)

publish_order_status_dropped(published_events, status) == published_events

\* publish_order_status: one notification.status_changed with the status
publish_order_status(published_events, status) ==
    Append(published_events, status)

\* the redelivered flag the broker sets on a message it delivers again
Redelivered(body) == "redelivered" \in DOMAIN body

Requeued(body) == ("redelivered" :> TRUE) @@ body

\* _process and _handle_status_update up to the first publish_order_status;
\* the ack sent at the end of message.process() reaches the broker or, when
\* the connection drops first, does not (a message is delivered at most
\* twice here)
process_status_update(acked) ==
    /\ reactor = "idle"
    /\ statusQ # << >>
    /\ LET body == Head(statusQ)
       IN  /\ acked \/ ~Redelivered(body)
           /\ IF no_status_update(body)
              THEN UNCHANGED <<order, notifs, reactor>>
              ELSE /\ order' = update_order_status(order, reactor_status(body),
                                                   reactor_extra_fields(body))
                   /\ notifs' = publish_order_status(notifs,
                                                     reactor_status(body))
                   /\ reactor' = IF body.event = "order.route_optimized"
                                 THEN "assign" ELSE "idle"
           /\ statusQ' = message_process(statusQ, handler_raises_error(body))
           /\ unacked' = IF acked THEN unacked ELSE Append(unacked, body)
    /\ UNCHANGED <<corrVars, apiVars, roster, others, held, txn, busVars, sagaVars>>

handle_status_update == process_status_update(TRUE)

handle_status_update_ack_lost == process_status_update(FALSE)

\* at-least-once delivery: the broker puts the messages it holds unacked back
\* on the queue, in their order, and delivers them again
requeue_unacked ==
    /\ reactor = "idle"
    /\ unacked # << >>
    /\ statusQ' = [i \in 1..Len(unacked) |-> Requeued(unacked[i])] \o statusQ
    /\ unacked' = << >>
    /\ UNCHANGED <<corrVars, apiVars, roster, others, held, order, notifs, reactor, txn, busVars,
                   sagaVars>>

\* the auto-assignment trigger after a READY transition
auto_assign_pickup ==
    /\ reactor = "assign"
    /\ LET assigned_order == assign_driver(order, "pickup")
       IN  IF assigned_order.pickup_driver_id # None
           THEN /\ order' = update_order_status(
                              assigned_order, "PICKUP_ASSIGNED",
                              ("pickup_driver_id" :> assigned_order.pickup_driver_id))
                /\ notifs' = publish_order_status(notifs, "PICKUP_ASSIGNED")
           ELSE UNCHANGED <<order, notifs>>
    /\ reactor' = "idle"
    /\ UNCHANGED <<corrVars, apiVars, roster, others, unacked, held, statusQ, txn, busVars, sagaVars>>

\* Several Reactor instances: every worker process of the order service runs
\* init_rabbitmq and consumes order_service.status_updates, so the broker
\* hands each queued event to one of them, and each handles its event on its
\* own
IdleInstance == [pc |-> "idle", body |-> None]

\* the broker delivers the head of the queue to an instance that is waiting
\* in its consume loop
deliver_to_instance(w) ==
    /\ held[w].pc = "idle"
    /\ statusQ # << >>
    /\ held' = [held EXCEPT ![w] = [pc |-> "handle", body |-> Head(statusQ)]]
    /\ statusQ' = Tail(statusQ)
    /\ UNCHANGED <<corrVars, apiVars, roster, others, unacked, order, notifs, reactor, txn, busVars,
                   sagaVars>>

\* the instance runs _handle_status_update up to the first
\* publish_order_status
instance_handle_status_update(w) ==
    /\ held[w].pc = "handle"
    /\ LET body == held[w].body
       IN  /\ IF no_status_update(body)
              THEN /\ UNCHANGED <<order, notifs>>
                   /\ held' = [held EXCEPT ![w] = IdleInstance]
              ELSE /\ order' = update_order_status(order, reactor_status(body),
                                                   reactor_extra_fields(body))
                   /\ notifs' = publish_order_status(notifs,
                                                     reactor_status(body))
                   /\ held' = IF body.event = "order.route_optimized"
                              THEN [held EXCEPT ![w].pc = "assign"]
                              ELSE [held EXCEPT ![w] = IdleInstance]
    /\ UNCHANGED <<corrVars, apiVars, roster, others, unacked, statusQ, reactor, txn, busVars, sagaVars>>

\* the auto-assignment trigger of the instance after its READY transition
instance_auto_assign_pickup(w) ==
    /\ held[w].pc = "assign"
    /\ LET assigned_order == assign_driver(order, "pickup")
       IN  IF assigned_order.pickup_driver_id # None
           THEN /\ order' = update_order_status(
                              assigned_order, "PICKUP_ASSIGNED",
                              ("pickup_driver_id" :> assigned_order.pickup_driver_id))
                /\ notifs' = publish_order_status(notifs, "PICKUP_ASSIGNED")
           ELSE UNCHANGED <<order, notifs>>
    /\ held' = [held EXCEPT ![w] = IdleInstance]
    /\ UNCHANGED <<corrVars, apiVars, roster, others, unacked, statusQ, reactor, txn, busVars, sagaVars>>

\* The instances on order.route_optimized events of different orders, with
\* the awaits of the handler as steps: the READY transition and its
\* notification, the count query of assign_driver, and the PICKUP_ASSIGNED
\* transition. Order k is the k-th row of the orders table.
store_order(k, row) ==
    /\ order' = IF k = 1 THEN row ELSE order
    /\ others' = IF k = 1 THEN others ELSE [others EXCEPT ![k - 1] = row]

NotHeld(k) ==
    \A v \in Sessions :
        IF held[v].pc = "idle" THEN TRUE ELSE held[v].body.index # k

instance_ready_transition(w, k) ==
    /\ held[w].pc = "idle"
    /\ StoredOrders[k].status = "WMS_RECEIVED"
    /\ NotHeld(k)
    /\ store_order(k, update_order_status(StoredOrders[k], "READY",
                                          [route_id |-> "route-1"]))
    /\ notifs' = publish_order_status(notifs, "READY")
    /\ held' = [held EXCEPT ![w] = [pc |-> "count", body |-> [index |-> k]]]
    /\ UNCHANGED <<corrVars, apiVars, roster, unacked, statusQ, reactor, txn,
                   busVars, sagaVars>>

\* assign_driver: the group-by query is answered and the driver selected
instance_count_loads(w) ==
    /\ held[w].pc = "count"
    /\ LET assigned_order == assign_driver(StoredOrders[held[w].body.index],
                                           "pickup")
       IN  held' = [held EXCEPT ![w] =
                      IF assigned_order.pickup_driver_id # None
                      THEN [pc |-> "commit",
                            body |-> [index |-> held[w].body.index,
                                      pickup_driver_id |->
                                          assigned_order.pickup_driver_id]]
                      ELSE IdleInstance]
    /\ UNCHANGED <<corrVars, apiVars, roster, others, unacked, order, statusQ,
                   notifs, reactor, txn, busVars, sagaVars>>

\* the second update_order_status and its notification
instance_commit_assignment(w) ==
    /\ held[w].pc = "commit"
    /\ store_order(held[w].body.index,
                   update_order_status(
                       StoredOrders[held[w].body.index], "PICKUP_ASSIGNED",
                       [pickup_driver_id |-> held[w].body.pickup_driver_id]))
    /\ notifs' = publish_order_status(notifs, "PICKUP_ASSIGNED")
    /\ held' = [held EXCEPT ![w] = IdleInstance]
    /\ UNCHANGED <<corrVars, apiVars, roster, unacked, statusQ, reactor, txn,
                   busVars, sagaVars>>

\* the integration service (or any publisher) puts a status event on
\* swifttrack.events; the reference field is present or not
StatusEvent(event, order_id, with_ref) ==
    IF with_ref /\ status_map(event)[2] # None
    THEN (status_map(event)[2] :> "ref-1")
           @@ [event |-> event, order_id |-> order_id]
    ELSE [event |-> event, order_id |-> order_id]

\* the events drawn: each of the four for the stored order, with and without
\* its reference, and one for each other order id
StatusEvents ==
    {StatusEvent(event, "o1", with_ref) :
        event \in KnownEvents, with_ref \in BOOLEAN}
    \cup {StatusEvent("order.cms_registered", order_id, TRUE) :
            order_id \in {UnknownId, MalformedId}}

\* the Reactor takes the events in queue order, so a second queued event
\* would only wait: one is published when the queue is empty
publish_status_body(bodies) ==
    /\ published < MaxEvents
    /\ statusQ = << >>
    /\ published' = published + 1
    /\ \E body \in bodies : statusQ' = Append(statusQ, body)
    /\ UNCHANGED <<corrVars, apiVars, roster, others, unacked, held, order, notifs, reactor, txn, sagaVars,
                   mainQ, retryQ, dlqQ, cons, seen, fate>>

publish_status_event == publish_status_body(StatusEvents)

\* messages the Reactor has no transition for: an event that is not in
\* status_map (for the stored order, and with an id that is no UUID), a body
\* without "event", and bodies of a known event whose order_id is absent or
\* empty
UnhandledEvents ==
    {[event |-> "order.delivered", order_id |-> "o1"],
     [event |-> "order.delivered", order_id |-> MalformedId],
     [order_id |-> "o1"],
     [event |-> "order.cms_registered", cms_reference |-> "ref-1"],
     [event |-> "order.saga_failed", order_id |-> ""]}

\* the events of the stored order, and the messages without transition
publish_any_event ==
    publish_status_body({body \in StatusEvents : body.order_id = "o1"}
                        \cup UnhandledEvents)

----------------------------------------------------------------------------
\* Driver status update, PATCH /api/orders/{id}/status
\* (order_service/app/routers/orders.py)

allowed_and_cancelled ==
    {"PICKING_UP", "PICKED_UP", "AT_WAREHOUSE", "OUT_FOR_DELIVERY",
     "DELIVERY_ATTEMPTED", "DELIVERED", "FAILED", "CANCELLED"}

allowed ==
    {"PICKING_UP", "PICKED_UP", "AT_WAREHOUSE", "OUT_FOR_DELIVERY",
     "DELIVERY_ATTEMPTED", "DELIVERED", "FAILED"}

\* the request bodies drawn: five allowed statuses (PICKED_UP and FAILED take
\* the same path as PICKING_UP) and one that is not allowed, without driver
\* ids, and two requests that name a driver (delivery_notes and
\* proof_of_delivery are left out)
PayloadStatuses ==
    {"PICKING_UP", "AT_WAREHOUSE", "OUT_FOR_DELIVERY", "DELIVERY_ATTEMPTED",
     "DELIVERED", "CANCELLED"}

Payloads ==
    {[status |-> st, pickup_driver_id |-> None, delivery_driver_id |-> None] :
        st \in PayloadStatuses}
    \cup {[status |-> "PICKING_UP", pickup_driver_id |-> "driver9",
           delivery_driver_id |-> None],
          [status |-> "OUT_FOR_DELIVERY", pickup_driver_id |-> None,
           delivery_driver_id |-> "driver9"]}

\* "if payload.pickup_driver_id: extra_fields[...] = ..." and the same for
\* delivery_driver_id
payload_extra_fields(payload) ==
    [f \in {g \in {"pickup_driver_id", "delivery_driver_id"} :
               payload[g] # None} |-> payload[f]]

attempt_target_status_late(new_attempts, max_delivery_attempts) ==
    IF new_attempts <= max_delivery_attempts
    THEN "DELIVERY_ATTEMPTED" ELSE "FAILED"

\* "if new_attempts < order.max_delivery_attempts: pass / else: FAILED"
attempt_target_status(new_attempts, max_delivery_attempts) ==
    IF new_attempts < max_delivery_attempts
    THEN "DELIVERY_ATTEMPTED" ELSE "FAILED"

patch_target_status(o, payload) ==
    IF payload.status = "DELIVERY_ATTEMPTED"
    THEN attempt_target_status(o.delivery_attempts + 1,
                               o.max_delivery_attempts)
    ELSE payload.status

patch_extra_fields_request_first(o, payload) ==
    LET extra_fields == payload_extra_fields(payload)
    IN  IF payload.status = "AT_WAREHOUSE"
        THEN LET assigned_order == assign_driver(o, "delivery")
             IN  IF assigned_order.delivery_driver_id # None
                 THEN extra_fields
                        @@ ("delivery_driver_id" :> assigned_order.delivery_driver_id)
                 ELSE extra_fields
        ELSE IF payload.status = "DELIVERY_ATTEMPTED"
        THEN ("delivery_attempts" :> o.delivery_attempts + 1) @@ extra_fields
        ELSE extra_fields

patch_extra_fields(o, payload) ==
    LET extra_fields == payload_extra_fields(payload)
    IN  IF payload.status = "AT_WAREHOUSE"
        THEN LET assigned_order == assign_driver(o, "delivery")
             IN  IF assigned_order.delivery_driver_id # None
                 THEN ("delivery_driver_id" :> assigned_order.delivery_driver_id)
                        @@ extra_fields
                 ELSE extra_fields
        ELSE IF payload.status = "DELIVERY_ATTEMPTED"
        THEN ("delivery_attempts" :> o.delivery_attempts + 1) @@ extra_fields
        ELSE extra_fields

\* the whole request: 400 for a status that is not allowed, else the
\* transition and its notification
driver_request(payload) ==
    /\ IF payload.status \notin allowed
       THEN UNCHANGED <<order, notifs>>
       ELSE /\ order' = update_order_status(
                          order, patch_target_status(order, payload),
                          patch_extra_fields(order, payload))
            /\ notifs' = publish_order_status(
                           notifs, patch_target_status(order, payload))
    /\ UNCHANGED <<corrVars, apiVars, roster, others, unacked, held, statusQ, reactor, txn, busVars, sagaVars>>

driver_update(max_history) ==
    /\ reactor = "idle"
    /\ Len(order.history) < max_history
    /\ \E payload \in Payloads : driver_request(payload)

\* The PATCH request in a session of its own, interleaved with the requests
\* of other sessions at its awaits. get_order loads the order; new_attempts,
\* target_status and extra_fields are computed from the loaded object, which
\* the select of update_order_status finds again in the session
AttemptPayload ==
    [status |-> "DELIVERY_ATTEMPTED", pickup_driver_id |-> None,
     delivery_driver_id |-> None]

\* the driver sets out again after an attempt
SetOutPayload ==
    [status |-> "OUT_FOR_DELIVERY", pickup_driver_id |-> None,
     delivery_driver_id |-> None]

\* requests sent so far: one history entry for each one carried out, after
\* the entries the order starts with, and the open ones
RequestsSent(first_entries) == Len(order.history) - first_entries + OpenTxns

patch_get_order(w, payload) ==
    /\ txn[w].pc = "idle"
    /\ RequestsSent(2) < MaxTransitions
    /\ payload.status \in allowed
    /\ txn' = [txn EXCEPT ![w] =
                 [pc |-> "loaded",
                  old_status |-> order.status,
                  new_status |-> patch_target_status(order, payload),
                  extra_fields |-> patch_extra_fields(order, payload)]]
    /\ UNCHANGED <<corrVars, apiVars, roster, others, unacked, held, order,
                   statusQ, notifs, reactor, busVars, sagaVars>>

\* update_order_status commits, and the notification is published
patch_commit(w) ==
    /\ txn[w].pc = "loaded"
    /\ order' = write_transition(order, txn[w].old_status, txn[w].new_status,
                                 txn[w].extra_fields)
    /\ notifs' = publish_order_status(notifs, txn[w].new_status)
    /\ txn' = [txn EXCEPT ![w] = IdleTxn]
    /\ UNCHANGED <<corrVars, apiVars, roster, others, unacked, held, statusQ,
                   reactor, busVars, sagaVars>>

HTTPException(status_code) == [status_code |-> status_code]

\* the request with its path parameter and its response: 400 for a status
\* that is not allowed, then 404 when get_order finds no order of that id
\* ("o1" is the stored order), else the transition, its notification and the
\* order as the response
patch_order_status(order_id, payload) ==
    /\ reactor = "idle"
    /\ Len(order.history) <= MaxUpdates
    /\ IF payload.status \notin allowed
       THEN /\ returned' = <<HTTPException(400)>>
            /\ UNCHANGED <<order, notifs>>
       ELSE IF order_id # "o1"
       THEN /\ returned' = <<HTTPException(404)>>
            /\ UNCHANGED <<order, notifs>>
       ELSE /\ order' = update_order_status(
                          order, patch_target_status(order, payload),
                          patch_extra_fields(order, payload))
            /\ notifs' = publish_order_status(
                           notifs, patch_target_status(order, payload))
            /\ returned' = <<order'>>
    /\ UNCHANGED <<corrVars, wsVars, roster, others, unacked, held, statusQ,
                   reactor, txn, busVars, sagaVars>>

\* a request for each status of OrderStatus, the requests of Payloads, and
\* an AT_WAREHOUSE request that names both drivers
PatchPayloads ==
    {[status |-> st, pickup_driver_id |-> None, delivery_driver_id |-> None] :
        st \in OrderStatus}
    \cup Payloads
    \cup {[status |-> "AT_WAREHOUSE", pickup_driver_id |-> "driver9",
           delivery_driver_id |-> "driver9"]}

any_patch_order_status ==
    \E order_id \in {"o1", "o2"}, payload \in PatchPayloads :
        patch_order_status(order_id, payload)

----------------------------------------------------------------------------
\* Retry / dead-letter consumer (shared/shared/rabbitmq.py)

DlqQueue == "integration_service.order_created.dlq"

NoMsg == [id |-> 0, routing_key |-> "", xdeath |-> << >>]

NewMessage(m) == [id |-> m, routing_key |-> RoutingKey, xdeath |-> << >>]

IdleConsumer == [pc |-> "idle", msg |-> NoMsg, retry_count |-> 0]

\* the exchange-to-queue bindings declared by consume_with_retry
Bindings ==
    {<<"swifttrack.events", RoutingKey, MainQueue>>,
     <<"swifttrack.dlx", RoutingKey, RetryQueue>>,
     <<"swifttrack.dlq", "#", DlqQueue>>}

\* the x-dead-letter-exchange argument of each declared queue
DeadLetterExchange(queue) ==
    CASE queue = MainQueue -> "swifttrack.dlx"
      [] queue = RetryQueue -> "swifttrack.events"
      [] OTHER -> None

\* the queues a message published to an exchange is routed to (topic
\* exchanges by routing key, the fanout exchange to every bound queue)
Route(exchange, key) ==
    {b[3] : b \in {c \in Bindings : c[1] = exchange /\ (c[2] = key \/ c[2] = "#")}}

\* the broker's x-death bookkeeping when it dead-letters a message from a
\* queue: the entry of (queue, reason) is counted up and moved to the front
DeathCount(msg, queue, reason) ==
    IF \E i \in 1..Len(msg.xdeath) :
          msg.xdeath[i].queue = queue /\ msg.xdeath[i].reason = reason
    THEN msg.xdeath[CHOOSE i \in 1..Len(msg.xdeath) :
            msg.xdeath[i].queue = queue /\ msg.xdeath[i].reason = reason].count
    ELSE 0

DeadLetter(msg, queue, reason) ==
    [msg EXCEPT !.xdeath =
        <<[queue |-> queue, reason |-> reason,
           count |-> DeathCount(msg, queue, reason) + 1]>>
        \o SelectSeq(msg.xdeath,
                     LAMBDA e : ~(e.queue = queue /\ e.reason = reason))]

get_retry_count_of_list(message, queue_name) == 0

\* _get_retry_count: the count of the first x-death entry of the queue
get_retry_count(message, queue_name) ==
    IF message.xdeath = << >> THEN 0
    ELSE IF \E i \in 1..Len(message.xdeath) : message.xdeath[i].queue = queue_name
         THEN message.xdeath[CHOOSE i \in 1..Len(message.xdeath) :
                 /\ message.xdeath[i].queue = queue_name
                 /\ \A j \in 1..(i - 1) : message.xdeath[j].queue # queue_name].count
         ELSE 0

retries_exhausted_strict(retry_count) == retry_count > max_retries

\* "if retry_count >= max_retries" of the except branch
retries_exhausted(retry_count) == retry_count >= max_retries

nack_requeue_true == TRUE

\* message.nack(requeue=False)
nack_requeue == FALSE

\* the message sent to the DLQ exchange: the headers of the failed message
\* and the three x- headers
dlq_message(message, retry_count) ==
    [id |-> message.id, xdeath |-> message.xdeath,
     x_original_routing_key |-> message.routing_key,
     x_retry_count |-> retry_count,
     x_service |-> ServiceName]

\* _consume_loop hands the next message to _process_with_retry, which reads
\* the retry count and calls the handler
process_with_retry ==
    /\ cons.pc = "idle"
    /\ mainQ # << >>
    /\ DeathCount(Head(mainQ), MainQueue, "rejected") < MaxDeath
    /\ cons' = [pc |-> "handler", msg |-> Head(mainQ),
                retry_count |-> get_retry_count(Head(mainQ), MainQueue)]
    /\ mainQ' = Tail(mainQ)
    /\ seen' = [seen EXCEPT ![Head(mainQ).id] = Append(@, cons'.retry_count)]
    /\ UNCHANGED <<storeVars, sagaVars, retryQ, dlqQ, published, fate>>

\* the handler returned: message.ack()
AckMessage ==
    /\ cons' = IdleConsumer
    /\ fate' = [fate EXCEPT ![cons.msg.id] = "acked"]
    /\ UNCHANGED <<mainQ, retryQ, dlqQ, published, seen>>

\* _handle_order_created returned (it returns also after a failed saga)
order_created_handled ==
    /\ cons.pc = "handler"
    /\ saga.pc = "return"
    /\ AckMessage
    /\ saga' = [saga EXCEPT !.pc = "idle"]
    /\ runs' = Append(runs, saga.result.success)
    /\ UNCHANGED <<storeVars, extCalls>>

\* at-least-once delivery: the ack of a handled order.created does not reach
\* the broker, which delivers the message again
redeliver_order_created ==
    /\ cons.pc = "handler"
    /\ saga.pc = "return"
    /\ Len(seen[cons.msg.id]) < MaxDeliveries
    /\ mainQ' = <<cons.msg>> \o mainQ
    /\ cons' = IdleConsumer
    /\ saga' = [saga EXCEPT !.pc = "idle"]
    /\ runs' = Append(runs, saga.result.success)
    /\ UNCHANGED <<storeVars, extCalls, retryQ, dlqQ, published, seen, fate>>

\* a publisher puts a message on swifttrack.events
publish_message ==
    /\ published < NumMsgs
    /\ published' = published + 1
    /\ mainQ' = IF MainQueue \in Route("swifttrack.events", RoutingKey)
                THEN Append(mainQ, NewMessage(published + 1)) ELSE mainQ
    /\ fate' = [fate EXCEPT ![published + 1] = "live"]
    /\ UNCHANGED <<storeVars, sagaVars, retryQ, dlqQ, cons, seen>>

\* the handler passed to consume_with_retry returns
handler_returns ==
    /\ cons.pc = "handler"
    /\ AckMessage
    /\ UNCHANGED <<storeVars, sagaVars>>

\* the handler raises: the except branch of _process_with_retry
handler_raises ==
    /\ cons.pc = "handler"
    /\ IF retries_exhausted(cons.retry_count)
       THEN \* message.ack(), then the publish to the DLQ exchange
            /\ cons' = [cons EXCEPT !.pc = "dlq_publish"]
            /\ UNCHANGED <<mainQ, retryQ>>
       ELSE \* message.nack(requeue): requeued, or dead-lettered by the broker
            /\ cons' = IdleConsumer
            /\ IF nack_requeue
               THEN /\ mainQ' = <<cons.msg>> \o mainQ
                    /\ UNCHANGED retryQ
               ELSE LET dead == DeadLetter(cons.msg, MainQueue, "rejected")
                        to == Route(DeadLetterExchange(MainQueue),
                                    cons.msg.routing_key)
                    IN  /\ retryQ' = IF RetryQueue \in to
                                     THEN Append(retryQ, dead) ELSE retryQ
                        /\ mainQ' = IF MainQueue \in to
                                    THEN Append(mainQ, dead) ELSE mainQ
    /\ UNCHANGED <<storeVars, sagaVars, dlqQ, published, seen, fate>>

\* dlq_exchange.publish(...) after the ack
publish_to_dlq ==
    /\ cons.pc = "dlq_publish"
    /\ dlqQ' = IF DlqQueue \in Route("swifttrack.dlq", "")
               THEN Append(dlqQ, dlq_message(cons.msg, cons.retry_count))
               ELSE dlqQ
    /\ fate' = [fate EXCEPT ![cons.msg.id] = "dlq"]
    /\ cons' = IdleConsumer
    /\ UNCHANGED <<storeVars, sagaVars, mainQ, retryQ, published, seen>>

\* dlq_exchange.publish(...) raises after the ack (connection or channel
\* lost), or the process stops between the two awaits: the exception leaves
\* _process_with_retry, nothing is published, and the broker has already
\* dropped the acked message. The restarted consumer is idle.
dlq_publish_fails ==
    /\ cons.pc = "dlq_publish"
    /\ fate' = [fate EXCEPT ![cons.msg.id] = "dropped"]
    /\ cons' = IdleConsumer
    /\ UNCHANGED <<storeVars, sagaVars, mainQ, retryQ, dlqQ, published, seen>>

\* x-message-ttl of the retry queue: the head expires and is dead-lettered
retry_expire ==
    /\ retryQ # << >>
    /\ LET dead == DeadLetter(Head(retryQ), RetryQueue, "expired")
           to == Route(DeadLetterExchange(RetryQueue), Head(retryQ).routing_key)
       IN  /\ mainQ' = IF MainQueue \in to THEN Append(mainQ, dead) ELSE mainQ
           /\ retryQ' = IF RetryQueue \in to
                        THEN Append(Tail(retryQ), dead) ELSE Tail(retryQ)
    /\ UNCHANGED <<storeVars, sagaVars, dlqQ, cons, published, seen, fate>>

----------------------------------------------------------------------------
\* WebSocket fan-out (api_gateway/app/routers/websocket.py)

\* the sessions that connect, and the client_id in the path of each
WebSockets == {"s1", "s2", "s3"}

ClientOf(s) == IF s = "s3" THEN "B" ELSE "A"

NoSessions == [s \in WebSockets |-> [pc |-> "new", inbox |-> << >>,
                                      raised |-> None]]

\* a dict, in insertion order, as a sequence of items
has_key(d, k) == \E i \in 1..Len(d) : d[i].key = k

key_index(d, k) == CHOOSE i \in 1..Len(d) : d[i].key = k

get_item(d, k) == d[key_index(d, k)].value

set_item(d, k, v) ==
    IF has_key(d, k) THEN [d EXCEPT ![key_index(d, k)].value = v]
    ELSE Append(d, [key |-> k, value |-> v])

del_item(d, k) == SelectSeq(d, LAMBDA e : e.key # k)

dict_keys(d) == [i \in 1..Len(d) |-> d[i].key]

\* list.remove(x), for a list that holds x: its first occurrence is taken out
list_remove(l, x) ==
    SubSeq(l, 1, IndexOf(l, x) - 1) \o SubSeq(l, IndexOf(l, x) + 1, Len(l))

\* tracking_websocket up to its receive loop: accept and register
accept(s) ==
    /\ ws[s].pc = "new"
    /\ connections' =
         set_item(connections, ClientOf(s),
                  Append(IF has_key(connections, ClientOf(s))
                         THEN get_item(connections, ClientOf(s)) ELSE << >>,
                         s))
    /\ ws' = [ws EXCEPT ![s].pc = "open"]
    /\ UNCHANGED <<corrVars, returned, bcast, roster, others, held, unacked,
                   order, statusQ, notifs, reactor, txn, busVars, sagaVars>>

\* the peer goes away: from now on a send to the session fails, and
\* receive_text of its handler raises WebSocketDisconnect
peer_disconnect(s) ==
    /\ ws[s].pc = "open"
    /\ ws' = [ws EXCEPT ![s].pc = "dead"]
    /\ UNCHANGED <<corrVars, returned, connections, bcast, roster, others,
                   held, unacked, order, statusQ, notifs, reactor, txn,
                   busVars, sagaVars>>

\* the finally block of tracking_websocket: "_connections[client_id]" raises
\* KeyError without the key, ".remove(websocket)" raises ValueError without
\* the session; the key is deleted with its last session. A broadcast that is
\* iterating over the deleted list keeps that (empty) list object.
disconnect_cleanup(s) ==
    /\ ws[s].pc = "dead"
    /\ LET client_id == ClientOf(s)
       IN  IF ~has_key(connections, client_id)
           THEN /\ ws' = [ws EXCEPT ![s].pc = "closed",
                                    ![s].raised = "KeyError"]
                /\ UNCHANGED <<connections, bcast>>
           ELSE IF ~InSeq(get_item(connections, client_id), s)
           THEN /\ ws' = [ws EXCEPT ![s].pc = "closed",
                                    ![s].raised = "ValueError"]
                /\ UNCHANGED <<connections, bcast>>
           ELSE LET rest == list_remove(get_item(connections, client_id), s)
                IN  /\ ws' = [ws EXCEPT ![s].pc = "closed"]
                    /\ connections' =
                         IF rest = << >> THEN del_item(connections, client_id)
                         ELSE set_item(connections, client_id, rest)
                    /\ bcast' =
                         IF /\ rest = << >>
                            /\ bcast.pc = "sending"
                            /\ bcast.client = client_id
                         THEN [bcast EXCEPT !.detached = TRUE]
                         ELSE bcast
    /\ UNCHANGED <<corrVars, returned, roster, others, held, unacked, order,
                   statusQ, notifs, reactor, txn, busVars, sagaVars>>

\* the bridge between two events; "raised" is the exception the last
\* _handle_ws_event ended with, "count" the events handled so far
IdleBroadcast ==
    [pc |-> "idle", message |-> None, clients |-> << >>, client |-> None,
     i |-> 0, target |-> None, dead |-> << >>, detached |-> FALSE,
     raised |-> None, count |-> 0]

broadcast_ended(b, raised) ==
    [IdleBroadcast EXCEPT !.raised = raised, !.count = b.count]

\* ws_message of _handle_ws_event
ws_message(body) ==
    [type |-> "order_update",
     order_id |-> body_get(body, "order_id", ""),
     event |-> body_get(body, "event", ""),
     status |-> body_get(body, "status", ""),
     message |-> body_get(body, "message", "")]

\* broadcast_to_all from the next client_id of its snapshot on, up to the
\* first send_json it awaits: a client_id that is no key any more, or whose
\* list is empty, takes no send
RECURSIVE next_client(_, _)
next_client(conn, b) ==
    IF b.clients = << >> THEN broadcast_ended(b, None)
    ELSE LET client_id == Head(b.clients)
         IN  IF ~has_key(conn, client_id) \/ get_item(conn, client_id) = << >>
             THEN next_client(conn, [b EXCEPT !.clients = Tail(@)])
             ELSE [b EXCEPT !.pc = "sending",
                            !.clients = Tail(@),
                            !.client = client_id,
                            !.i = 1,
                            !.target = get_item(conn, client_id)[1],
                            !.dead = << >>,
                            !.detached = FALSE]

\* "for ws in dead_connections: _connections[client_id].remove(ws)"
RECURSIVE remove_dead(_, _, _)
remove_dead(conn, client_id, dead_connections) ==
    IF dead_connections = << >> THEN [connections |-> conn, raised |-> None]
    ELSE IF ~has_key(conn, client_id)
    THEN [connections |-> conn, raised |-> "KeyError"]
    ELSE IF ~InSeq(get_item(conn, client_id), Head(dead_connections))
    THEN [connections |-> conn, raised |-> "ValueError"]
    ELSE remove_dead(set_item(conn, client_id,
                              list_remove(get_item(conn, client_id),
                                          Head(dead_connections))),
                     client_id, Tail(dead_connections))

\* broadcast_to_client after a send_json returned or raised: the list
\* iterator yields the item at its index of the list as it is now, or the
\* loop ends, the dead sessions are removed and broadcast_to_all goes on
after_send(conn, b) ==
    LET sessions == IF b.detached THEN << >> ELSE get_item(conn, b.client)
    IN  IF b.i < Len(sessions)
        THEN [connections |-> conn,
              bcast |-> [b EXCEPT !.i = @ + 1, !.target = sessions[b.i + 1]]]
        ELSE LET removed == remove_dead(conn, b.client, b.dead)
             IN  [connections |-> removed.connections,
                  bcast |-> IF removed.raised # None
                            THEN broadcast_ended(b, removed.raised)
                            ELSE next_client(removed.connections, b)]

\* the notification events the bridge is bound to: the status change of an
\* order as the order service publishes it, and the order_update of another
\* order as the notification service republishes it
WsBodies ==
    {[event |-> "notification.status_changed", order_id |-> "o1",
      status |-> "READY", details |-> None],
     [event |-> "order.created", order_id |-> "o2", status |-> "",
      message |-> "Order o2 received", channel |-> "email"]}

\* _handle_ws_event up to the first send it awaits
handle_ws_event(body) ==
    /\ bcast.pc = "idle"
    /\ bcast.count < MaxPushes
    /\ bcast' = next_client(connections,
                            [bcast EXCEPT !.message = ws_message(body),
                                          !.clients = dict_keys(connections),
                                          !.raised = None,
                                          !.count = @ + 1])
    /\ UNCHANGED <<corrVars, returned, connections, ws, roster, others, held,
                   unacked, order, statusQ, notifs, reactor, txn, busVars,
                   sagaVars>>

\* the awaited send_json ends: the session received the message, or the send
\* raised because the peer is gone; the broadcast runs on to its next await
broadcast_send ==
    /\ bcast.pc = "sending"
    /\ LET sent_ok == ws[bcast.target].pc = "open"
           next == after_send(connections,
                              [bcast EXCEPT !.dead =
                                  IF sent_ok THEN @
                                  ELSE Append(@, bcast.target)])
       IN  /\ ws' = IF sent_ok
                    THEN [ws EXCEPT ![bcast.target].inbox =
                                        Append(@, bcast.message)]
                    ELSE ws
           /\ connections' = next.connections
           /\ bcast' = next.bcast
    /\ UNCHANGED <<corrVars, returned, roster, others, held, unacked, order,
                   statusQ, notifs, reactor, txn, busVars, sagaVars>>

----------------------------------------------------------------------------
\* Correlation ids (shared/shared/rabbitmq.py and the handlers of the three
\* services). A message is its routing key, headers, AMQP correlation_id
\* property and body; "returned" records what publish_event returned for it
\* and "trigger" the correlation id of the order.created it descends from.

\* a value Python takes as true: not None and not the empty string
Truthy(v) == v \notin {None, ""}

\* str(uuid.uuid4()): the n-th generated id
Uuid4(n) == "uuid-" \o ToString(n)

NoHeaders == [h \in {} |-> None]

QueueNames ==
    {"integration_service.order_created", "order_service.status_updates",
     "notification_service.all_events"}

\* the queue of the gateway's bridge, when init_ws_consumer has declared it
BridgeQueue == "api_gateway.ws_notifications"

NoQueues == [q \in QueueNames |-> << >>]

\* the routing keys each service binds its queue to
EventBindings(queue) ==
    CASE queue = "integration_service.order_created" -> {"order.created"}
      [] queue = "order_service.status_updates" ->
           {"order.cms_registered", "order.wms_received",
            "order.route_optimized", "order.saga_failed"}
      [] queue = "notification_service.all_events" ->
           {"order.created", "order.cms_registered", "order.wms_received",
            "order.route_optimized", "order.saga_failed",
            "notification.status_changed"}
      [] queue = BridgeQueue ->
           {"notification.order_update", "notification.status_changed"}

\* publish_event: cid = correlation_id or a new uuid4; the stamped headers,
\* over which the caller's headers take precedence; the AMQP property
event_message(service, routing_key, body, correlation_id, headers, n, trigger) ==
    LET cid == IF Truthy(correlation_id) THEN correlation_id ELSE Uuid4(n)
    IN  [routing_key |-> routing_key,
         body |-> body,
         headers |-> headers @@ [correlation_id |-> cid,
                                 source_service |-> service],
         correlation_id |-> cid,
         returned |-> cid,
         trigger |-> trigger]

\* publish: the legacy method, no headers and no correlation_id property
legacy_message(routing_key, body) ==
    [routing_key |-> routing_key, body |-> body, headers |-> NoHeaders,
     correlation_id |-> None, returned |-> None, trigger |-> None]

\* the exchange copies a message to every declared queue bound to its
\* routing key
exchange_publish(qs, messages) ==
    [q \in DOMAIN qs |->
        qs[q] \o SelectSeq(messages,
                           LAMBDA m : m.routing_key \in EventBindings(q))]

ToSet(seq) == {seq[i] : i \in 1..Len(seq)}

\* _extract_correlation_id: header, else AMQP property, else a new uuid4
extract_correlation_id(message, n) ==
    IF "correlation_id" \in DOMAIN message.headers
         /\ Truthy(message.headers.correlation_id)
    THEN message.headers.correlation_id
    ELSE IF Truthy(message.correlation_id)
         THEN message.correlation_id
         ELSE Uuid4(n)

\* whether _extract_correlation_id generates an id
extract_mints(message) ==
    /\ ~("correlation_id" \in DOMAIN message.headers
           /\ Truthy(message.headers.correlation_id))
    /\ ~Truthy(message.correlation_id)

\* body.setdefault("_correlation_id", cid): the body handed to the handler
handler_body(message, n) ==
    IF "_correlation_id" \in DOMAIN message.body
    THEN message.body
    ELSE ("_correlation_id" :> extract_correlation_id(message, n))
           @@ message.body

\* a handler publishes the events of the routing keys with publish_event,
\* all with the same correlation_id argument: each call generates an id of
\* its own when the argument is None or empty
handler_publishes(service, routing_keys, correlation_id, n, trigger) ==
    [i \in 1..Len(routing_keys) |->
        event_message(service, routing_keys[i],
                      [event |-> routing_keys[i], order_id |-> "o1"],
                      correlation_id, NoHeaders, n + i, trigger)]

minted_by(messages, correlation_id) ==
    IF Truthy(correlation_id) THEN 0 ELSE Len(messages)

\* the consumer takes the head of its queue and runs the handler, which
\* publishes the messages
consume_and_publish(queue, messages, minted) ==
    /\ queues' = exchange_publish([queues EXCEPT ![queue] = Tail(@)], messages)
    /\ sent' = sent \cup ToSet(messages)
    /\ uuids' = uuids + minted
    /\ UNCHANGED <<apiVars, roster, others, held, unacked, order, statusQ, notifs,
                   reactor, txn, busVars, sagaVars>>

\* the arguments other callers give publish_event
PublishArgs ==
    [routing_key : {"order.created", "notification.status_changed"},
     correlation_id : {None, "", "cid-a"},
     headers : {NoHeaders, [correlation_id |-> "cid-h"],
                [correlation_id |-> ""]},
     body : {[event |-> "x", order_id |-> "o1"],
             [event |-> "x", order_id |-> "o1", _correlation_id |-> "cid-b"]}]

\* publish_order_created: the order service publishes order.created with no
\* correlation_id argument
publish_order_created ==
    /\ \A m \in sent : m.trigger = None
    /\ LET message == event_message("order_service", "order.created",
                                    [event |-> "order.created",
                                     order_id |-> "o1"],
                                    None, NoHeaders, uuids + 1,
                                    Uuid4(uuids + 1))
       IN  /\ queues' = exchange_publish(queues, <<message>>)
           /\ sent' = sent \cup {message}
           /\ uuids' = uuids + 1
    /\ UNCHANGED <<apiVars, roster, others, held, unacked, order, statusQ, notifs,
                   reactor, txn, busVars, sagaVars>>

\* a call of publish_event by any other caller; one is made when the queues
\* are empty
publish_event_call ==
    /\ published < MaxCalls
    /\ queues = NoQueues
    /\ \E args \in PublishArgs :
         LET message == event_message("caller", args.routing_key, args.body,
                                      args.correlation_id, args.headers,
                                      uuids + 1, None)
         IN  /\ queues' = exchange_publish(queues, <<message>>)
             /\ sent' = sent \cup {message}
             /\ uuids' = uuids + minted_by(<<message>>, args.correlation_id)
    /\ published' = published + 1
    /\ UNCHANGED <<apiVars, roster, others, held, unacked, order, statusQ, notifs,
                   reactor, txn, sagaVars, mainQ, retryQ, dlqQ, cons, seen,
                   fate>>

\* a call of the legacy publish
publish_call ==
    /\ published < MaxCalls
    /\ queues = NoQueues
    /\ LET message == legacy_message("notification.status_changed",
                                     [event |-> "x", order_id |-> "o1"])
       IN  /\ queues' = exchange_publish(queues, <<message>>)
           /\ sent' = sent \cup {message}
    /\ published' = published + 1
    /\ UNCHANGED <<uuids, apiVars, roster, others, held, unacked, order, statusQ,
                   notifs, reactor, txn, sagaVars, mainQ, retryQ, dlqQ, cons,
                   seen, fate>>

\* the event lists _handle_order_created publishes for the outcomes of a saga
SagaOutcomes ==
    {<<"order.cms_registered", "order.wms_received", "order.route_optimized">>,
     <<"order.cms_registered", "order.saga_failed">>,
     <<"order.saga_failed">>}

\* _process_with_retry and _handle_order_created: the events of the run are
\* published with correlation_id = body.get("_correlation_id")
consume_order_created ==
    LET q == "integration_service.order_created"
    IN  /\ queues[q] # << >>
        /\ LET message == Head(queues[q])
               minted == IF extract_mints(message) THEN 1 ELSE 0
               body == handler_body(message, uuids + 1)
           IN  \E outcome \in SagaOutcomes :
                 consume_and_publish(
                    q,
                    handler_publishes("integration_service", outcome,
                                      body._correlation_id, uuids + minted,
                                      message.trigger),
                    minted + minted_by(outcome, body._correlation_id))

\* _process and _handle_status_update: notification.status_changed for the
\* transition, and for PICKUP_ASSIGNED after order.route_optimized, with
\* correlation_id = body.get("_correlation_id")
consume_status_update ==
    LET q == "order_service.status_updates"
    IN  /\ queues[q] # << >>
        /\ LET message == Head(queues[q])
               minted == IF extract_mints(message) THEN 1 ELSE 0
               body == handler_body(message, uuids + 1)
               keys == IF message.routing_key = "order.route_optimized"
                          /\ roster # << >>
                       THEN <<"notification.status_changed",
                              "notification.status_changed">>
                       ELSE <<"notification.status_changed">>
           IN  consume_and_publish(
                  q,
                  handler_publishes("order_service", keys,
                                    body._correlation_id, uuids + minted,
                                    message.trigger),
                  minted + minted_by(keys, body._correlation_id))

consume_all_events_as_status_changed ==
    LET q == "notification_service.all_events"
    IN  /\ queues[q] # << >>
        /\ LET message == Head(queues[q])
               minted == IF extract_mints(message) THEN 1 ELSE 0
               keys == <<"notification.status_changed">>
           IN  consume_and_publish(
                  q,
                  handler_publishes("notification_service", keys, None,
                                    uuids + minted, message.trigger),
                  minted + minted_by(keys, None))

\* _process and _handle_event of the notification service:
\* notification.order_update is published with no correlation_id argument
consume_all_events ==
    LET q == "notification_service.all_events"
    IN  /\ queues[q] # << >>
        /\ LET message == Head(queues[q])
               minted == IF extract_mints(message) THEN 1 ELSE 0
               keys == <<"notification.order_update">>
           IN  consume_and_publish(
                  q,
                  handler_publishes("notification_service", keys, None,
                                    uuids + minted, message.trigger),
                  minted + minted_by(keys, None))

\* _process and _handle_ws_event of the gateway's bridge: the event is
\* broadcast to the sessions (handle_ws_event, broadcast_send) and nothing
\* is published
consume_ws_notification ==
    LET q == BridgeQueue
    IN  /\ q \in DOMAIN queues
        /\ queues[q] # << >>
        /\ consume_and_publish(
              q, << >>, IF extract_mints(Head(queues[q])) THEN 1 ELSE 0)

----------------------------------------------------------------------------
\* Specifications

NoSeen == [m \in 1..NumMsgs |-> << >>]
NoFate == [m \in 1..NumMsgs |-> "none"]
NoCalls == [cms |-> 0, wms |-> 0, ros |-> 0]
NoTxn == [w \in Sessions |-> IdleTxn]
NoHeld == [w \in Sessions |-> IdleInstance]

\* Spec: POST /api/orders has stored the order and published order.created
Init ==
    /\ roster \in RosterChoices
    /\ others = << >>
    /\ held = NoHeld
    /\ unacked = << >>
    /\ queues = NoQueues
    /\ uuids = 0
    /\ sent = {}
    /\ returned = << >>
    /\ connections = << >>
    /\ ws = NoSessions
    /\ bcast = IdleBroadcast
    /\ order = create_order
    /\ statusQ = << >>
    /\ notifs = << >>
    /\ reactor = "idle"
    /\ txn = NoTxn
    /\ mainQ = <<NewMessage(1)>>
    /\ retryQ = << >>
    /\ dlqQ = << >>
    /\ cons = IdleConsumer
    /\ saga = IdleSaga
    /\ extCalls = NoCalls
    /\ runs = << >>
    /\ published = 1
    /\ seen = NoSeen
    /\ fate = [NoFate EXCEPT ![1] = "live"]

Next ==
    \/ process_with_retry
    \/ fetch_order_status
    \/ saga_step_1_cms
    \/ saga_step_2_wms
    \/ saga_step_3_ros
    \/ compensate_wms
    \/ compensate_cms
    \/ publish_step_event
    \/ publish_saga_failed
    \/ order_created_handled
    \/ redeliver_order_created
    \/ handle_status_update
    \/ auto_assign_pickup

Spec == Init /\ [][Next]_vars

\* SpecFair: Spec with the consumers and the handler's coroutine running on:
\* a consumer with a message to take takes it, a handler that can take its
\* next step takes it
SpecFair ==
    /\ Spec
    /\ WF_vars(process_with_retry)
    /\ WF_vars(fetch_order_status)
    /\ WF_vars(saga_step_1_cms)
    /\ WF_vars(saga_step_2_wms)
    /\ WF_vars(saga_step_3_ros)
    /\ WF_vars(compensate_wms)
    /\ WF_vars(compensate_cms)
    /\ WF_vars(publish_step_event)
    /\ WF_vars(publish_saga_failed)
    /\ WF_vars(order_created_handled \/ redeliver_order_created)
    /\ WF_vars(handle_status_update)
    /\ WF_vars(auto_assign_pickup)

\* SpecReactors: one delivery of order.created, its saga run, and the status
\* events consumed by the Reactor instances of the worker processes
NextReactors ==
    \/ process_with_retry
    \/ fetch_order_status
    \/ saga_step_1_cms
    \/ saga_step_2_wms
    \/ saga_step_3_ros
    \/ compensate_wms
    \/ compensate_cms
    \/ publish_step_event
    \/ publish_saga_failed
    \/ order_created_handled
    \/ \E w \in Sessions : deliver_to_instance(w)
    \/ \E w \in Sessions : instance_handle_status_update(w)
    \/ \E w \in Sessions : instance_auto_assign_pickup(w)

SpecReactors == Init /\ [][NextReactors]_vars

\* SpecSaga: one run of execute_order_saga for every result of the probe
InitSaga ==
    /\ roster = DefaultRoster
    /\ others = << >>
    /\ held = NoHeld
    /\ unacked = << >>
    /\ queues = NoQueues
    /\ uuids = 0
    /\ sent = {}
    /\ returned = << >>
    /\ connections = << >>
    /\ ws = NoSessions
    /\ bcast = IdleBroadcast
    /\ order = create_order
    /\ statusQ = << >>
    /\ notifs = << >>
    /\ reactor = "idle"
    /\ txn = NoTxn
    /\ mainQ = << >>
    /\ retryQ = << >>
    /\ dlqQ = << >>
    /\ cons = IdleConsumer
    /\ \E c \in OrderStatus \cup {None} :
         saga = [IdleSaga EXCEPT !.pc = "step1", !.current_status = c]
    /\ extCalls = NoCalls
    /\ runs = << >>
    /\ published = 0
    /\ seen = NoSeen
    /\ fate = NoFate

NextSaga ==
    \/ saga_step_1_cms
    \/ saga_step_2_wms
    \/ saga_step_3_ros
    \/ compensate_wms
    \/ compensate_cms

SpecSaga == InitSaga /\ [][NextSaga]_vars

\* SpecHandler: SpecSaga followed by the publishing of the handler, with no
\* consumer of the status events, so that the queue holds what the run
\* published
NextHandler ==
    \/ saga_step_1_cms
    \/ saga_step_2_wms
    \/ saga_step_3_ros
    \/ compensate_wms
    \/ compensate_cms
    \/ publish_step_event
    \/ publish_saga_failed

SpecHandler == InitSaga /\ [][NextHandler]_vars

\* SpecProtocol: SpecHandler with CMS and WMS answering in every way their
\* protocols allow
NextProtocol ==
    \/ saga_step_1_any_response
    \/ saga_step_2_any_reply
    \/ saga_step_3_ros
    \/ compensate_wms
    \/ compensate_cms
    \/ publish_step_event
    \/ publish_saga_failed

SpecProtocol == InitSaga /\ [][NextProtocol]_vars

\* SpecRetry: consume_with_retry with a handler that returns or raises
InitRetry ==
    /\ roster = DefaultRoster
    /\ others = << >>
    /\ held = NoHeld
    /\ unacked = << >>
    /\ queues = NoQueues
    /\ uuids = 0
    /\ sent = {}
    /\ returned = << >>
    /\ connections = << >>
    /\ ws = NoSessions
    /\ bcast = IdleBroadcast
    /\ order = create_order
    /\ statusQ = << >>
    /\ notifs = << >>
    /\ reactor = "idle"
    /\ txn = NoTxn
    /\ mainQ = << >>
    /\ retryQ = << >>
    /\ dlqQ = << >>
    /\ cons = IdleConsumer
    /\ saga = IdleSaga
    /\ extCalls = NoCalls
    /\ runs = << >>
    /\ published = 0
    /\ seen = NoSeen
    /\ fate = NoFate

NextRetry ==
    \/ publish_message
    \/ process_with_retry
    \/ handler_returns
    \/ handler_raises
    \/ publish_to_dlq
    \/ retry_expire

SpecRetry == InitRetry /\ [][NextRetry]_vars

\* SpecRetryFailure: the same consumer when the publish to the DLQ exchange
\* can fail
NextRetryFailure ==
    \/ NextRetry
    \/ dlq_publish_fails

SpecRetryFailure == InitRetry /\ [][NextRetryFailure]_vars

\* SpecOrder: the order service alone: status events arrive on its queue,
\* drivers send status updates; the handlers run one at a time
InitOrder ==
    /\ roster \in RosterChoices
    /\ others = << >>
    /\ held = NoHeld
    /\ unacked = << >>
    /\ queues = NoQueues
    /\ uuids = 0
    /\ sent = {}
    /\ returned = << >>
    /\ connections = << >>
    /\ ws = NoSessions
    /\ bcast = IdleBroadcast
    /\ order = create_order
    /\ statusQ = << >>
    /\ notifs = << >>
    /\ reactor = "idle"
    /\ txn = NoTxn
    /\ mainQ = << >>
    /\ retryQ = << >>
    /\ dlqQ = << >>
    /\ cons = IdleConsumer
    /\ saga = IdleSaga
    /\ extCalls = NoCalls
    /\ runs = << >>
    /\ published = 0
    /\ seen = NoSeen
    /\ fate = NoFate

NextOrder ==
    \/ publish_status_event
    \/ handle_status_update
    \/ auto_assign_pickup
    \/ driver_update(MaxHistory)

SpecOrder == InitOrder /\ [][NextOrder]_vars

\* SpecTransition: update_order_status called with every status and id, on
\* a table that holds the order and one other row
InitTransition ==
    /\ roster = DefaultRoster
    /\ others = <<OtherOrder("PICKED_UP", "driver1")>>
    /\ held = NoHeld
    /\ unacked = << >>
    /\ queues = NoQueues
    /\ uuids = 0
    /\ sent = {}
    /\ returned = << >>
    /\ connections = << >>
    /\ ws = NoSessions
    /\ bcast = IdleBroadcast
    /\ order = create_order
    /\ statusQ = << >>
    /\ notifs = << >>
    /\ reactor = "idle"
    /\ txn = NoTxn
    /\ mainQ = << >>
    /\ retryQ = << >>
    /\ dlqQ = << >>
    /\ cons = IdleConsumer
    /\ saga = IdleSaga
    /\ extCalls = NoCalls
    /\ runs = << >>
    /\ published = 0
    /\ seen = NoSeen
    /\ fate = NoFate

NextTransition == any_update_order_status_call

SpecTransition == InitTransition /\ [][NextTransition]_vars

\* SpecWebSocket: sessions of two clients connect and go away while the
\* bridge pushes notification events
NextWebSocket ==
    \/ \E s \in WebSockets : accept(s)
    \/ \E s \in WebSockets : peer_disconnect(s)
    \/ \E s \in WebSockets : disconnect_cleanup(s)
    \/ \E body \in WsBodies : handle_ws_event(body)
    \/ broadcast_send

SpecWebSocket == InitOrder /\ [][NextWebSocket]_vars

\* SpecPatch: PATCH requests with every status, for the stored order and for
\* an id of no order
NextPatch == any_patch_order_status

SpecPatch == InitOrder /\ [][NextPatch]_vars

\* SpecAttempts: the DELIVERY_ATTEMPTED and OUT_FOR_DELIVERY requests of
\* several sessions for one order that is out for delivery with driver1
OutForDelivery ==
    update_order_status(create_order, "OUT_FOR_DELIVERY",
                        [pickup_driver_id |-> "driver1",
                         delivery_driver_id |-> "driver1"])

InitAttempts ==
    /\ roster = DefaultRoster
    /\ others = << >>
    /\ held = NoHeld
    /\ unacked = << >>
    /\ queues = NoQueues
    /\ uuids = 0
    /\ sent = {}
    /\ returned = << >>
    /\ connections = << >>
    /\ ws = NoSessions
    /\ bcast = IdleBroadcast
    /\ order \in {OutForDelivery,
                  [OutForDelivery EXCEPT !.max_delivery_attempts = 5]}
    /\ statusQ = << >>
    /\ notifs = << >>
    /\ reactor = "idle"
    /\ txn = NoTxn
    /\ mainQ = << >>
    /\ retryQ = << >>
    /\ dlqQ = << >>
    /\ cons = IdleConsumer
    /\ saga = IdleSaga
    /\ extCalls = NoCalls
    /\ runs = << >>
    /\ published = 0
    /\ seen = NoSeen
    /\ fate = NoFate

NextAttempts ==
    \/ \E w \in Sessions, payload \in {AttemptPayload, SetOutPayload} :
         patch_get_order(w, payload)
    \/ \E w \in Sessions : patch_commit(w)

SpecAttempts == InitAttempts /\ [][NextAttempts]_vars

\* SpecBalance: the orders of the table, all received by WMS and with no
\* driver, get their order.route_optimized events handled by the Reactor
\* instances
WmsReceivedOrder ==
    update_order_status(
        update_order_status(create_order, "CMS_REGISTERED",
                            [cms_reference |-> "ref-1"]),
        "WMS_RECEIVED", [wms_reference |-> "ref-1"])

InitBalance ==
    /\ roster \in {DefaultRoster, <<"driver1", "driver2">>}
    /\ others = [i \in 1..MaxOthers |-> WmsReceivedOrder]
    /\ held = NoHeld
    /\ unacked = << >>
    /\ queues = NoQueues
    /\ uuids = 0
    /\ sent = {}
    /\ returned = << >>
    /\ connections = << >>
    /\ ws = NoSessions
    /\ bcast = IdleBroadcast
    /\ order = WmsReceivedOrder
    /\ statusQ = << >>
    /\ notifs = << >>
    /\ reactor = "idle"
    /\ txn = NoTxn
    /\ mainQ = << >>
    /\ retryQ = << >>
    /\ dlqQ = << >>
    /\ cons = IdleConsumer
    /\ saga = IdleSaga
    /\ extCalls = NoCalls
    /\ runs = << >>
    /\ published = 0
    /\ seen = NoSeen
    /\ fate = NoFate

NextBalance ==
    \/ \E w \in Sessions, k \in 1..Len(StoredOrders) :
         instance_ready_transition(w, k)
    \/ \E w \in Sessions : instance_count_loads(w)
    \/ \E w \in Sessions : instance_commit_assignment(w)

SpecBalance == InitBalance /\ [][NextBalance]_vars

\* SpecDelivery: the driver status updates of one order alone
NextDelivery == driver_update(MaxDeliveryHistory)

SpecDelivery == InitOrder /\ [][NextDelivery]_vars

\* SpecUnhandled: the Reactor, which keeps consuming, given the events of the
\* stored order and messages it has no transition for
NextUnhandled ==
    \/ publish_any_event
    \/ handle_status_update
    \/ auto_assign_pickup

SpecUnhandled ==
    /\ InitOrder
    /\ [][NextUnhandled]_vars
    /\ WF_vars(handle_status_update)
    /\ WF_vars(auto_assign_pickup)

\* SpecRedelivery: status events handled by the Reactor, with acks that can
\* be lost and the redelivery that follows
NextRedelivery ==
    \/ publish_status_event
    \/ handle_status_update
    \/ handle_status_update_ack_lost
    \/ auto_assign_pickup
    \/ requeue_unacked

SpecRedelivery == InitOrder /\ [][NextRedelivery]_vars

\* SpecAssign: assign_driver called for an order, over rosters and tables of
\* other orders
InitAssign ==
    /\ roster \in AssignRosters
    /\ others \in OtherTables
    /\ held = NoHeld
    /\ unacked = << >>
    /\ queues = NoQueues
    /\ uuids = 0
    /\ sent = {}
    /\ returned = << >>
    /\ connections = << >>
    /\ ws = NoSessions
    /\ bcast = IdleBroadcast
    /\ order = create_order
    /\ statusQ = << >>
    /\ notifs = << >>
    /\ reactor = "idle"
    /\ txn = NoTxn
    /\ mainQ = << >>
    /\ retryQ = << >>
    /\ dlqQ = << >>
    /\ cons = IdleConsumer
    /\ saga = IdleSaga
    /\ extCalls = NoCalls
    /\ runs = << >>
    /\ published = 0
    /\ seen = NoSeen
    /\ fate = NoFate

NextAssign ==
    \/ assign_driver_call("pickup")
    \/ assign_driver_call("delivery")

SpecAssign == InitAssign /\ [][NextAssign]_vars

\* SpecCorrelation: events published by the order service and by other
\* callers, consumed by the three services
InitCorrelation ==
    /\ queues = NoQueues
    /\ uuids = 0
    /\ sent = {}
    /\ returned = << >>
    /\ connections = << >>
    /\ ws = NoSessions
    /\ bcast = IdleBroadcast
    /\ roster \in RosterChoices
    /\ others = << >>
    /\ held = NoHeld
    /\ unacked = << >>
    /\ order = create_order
    /\ statusQ = << >>
    /\ notifs = << >>
    /\ reactor = "idle"
    /\ txn = NoTxn
    /\ mainQ = << >>
    /\ retryQ = << >>
    /\ dlqQ = << >>
    /\ cons = IdleConsumer
    /\ saga = IdleSaga
    /\ extCalls = NoCalls
    /\ runs = << >>
    /\ published = 0
    /\ seen = NoSeen
    /\ fate = NoFate

NextCorrelation ==
    \/ publish_order_created
    \/ publish_event_call
    \/ publish_call
    \/ consume_order_created
    \/ consume_status_update
    \/ consume_all_events

SpecCorrelation == InitCorrelation /\ [][NextCorrelation]_vars

\* SpecTermination: one order.created and the consumers of the queues, with
\* the bridge queue declared or not
InitTermination ==
    /\ queues \in {NoQueues, [q \in QueueNames \cup {BridgeQueue} |-> << >>]}
    /\ uuids = 0
    /\ sent = {}
    /\ returned = << >>
    /\ connections = << >>
    /\ ws = NoSessions
    /\ bcast = IdleBroadcast
    /\ roster \in RosterChoices
    /\ others = << >>
    /\ held = NoHeld
    /\ unacked = << >>
    /\ order = create_order
    /\ statusQ = << >>
    /\ notifs = << >>
    /\ reactor = "idle"
    /\ txn = NoTxn
    /\ mainQ = << >>
    /\ retryQ = << >>
    /\ dlqQ = << >>
    /\ cons = IdleConsumer
    /\ saga = IdleSaga
    /\ extCalls = NoCalls
    /\ runs = << >>
    /\ published = 0
    /\ seen = NoSeen
    /\ fate = NoFate

NextTermination ==
    \/ publish_order_created
    \/ consume_order_created
    \/ consume_status_update
    \/ consume_all_events
    \/ consume_ws_notification

SpecTermination == InitTermination /\ [][NextTermination]_vars

\* every consumer task takes the next message of its queue
SpecTerminationFair ==
    /\ SpecTermination
    /\ WF_vars(consume_order_created)
    /\ WF_vars(consume_status_update)
    /\ WF_vars(consume_all_events)
    /\ WF_vars(consume_ws_notification)

\* SpecConcurrent: update_order_status called for one order from several
\* sessions at once
InitConcurrent ==
    /\ roster = DefaultRoster
    /\ others = << >>
    /\ held = NoHeld
    /\ unacked = << >>
    /\ queues = NoQueues
    /\ uuids = 0
    /\ sent = {}
    /\ returned = << >>
    /\ connections = << >>
    /\ ws = NoSessions
    /\ bcast = IdleBroadcast
    /\ order = create_order
    /\ statusQ = << >>
    /\ notifs = << >>
    /\ reactor = "idle"
    /\ txn = NoTxn
    /\ mainQ = << >>
    /\ retryQ = << >>
    /\ dlqQ = << >>
    /\ cons = IdleConsumer
    /\ saga = IdleSaga
    /\ extCalls = NoCalls
    /\ runs = << >>
    /\ published = 0
    /\ seen = NoSeen
    /\ fate = NoFate

NextConcurrent ==
    \/ \E w \in Sessions : select_order(w)
    \/ \E w \in Sessions : commit_transition(w)

SpecConcurrent == InitConcurrent /\ [][NextConcurrent]_vars

\* the event loop runs the consumer and the handler; the broker expires
\* the retry queue
SpecRetryFair ==
    /\ SpecRetry
    /\ WF_vars(process_with_retry)
    /\ WF_vars(handler_returns \/ handler_raises)
    /\ WF_vars(publish_to_dlq)
    /\ WF_vars(retry_expire)

----------------------------------------------------------------------------
\* Properties of the saga

\* execute_order_saga has returned its result to the handler
SagaReturned == saga.pc \in {"publish", "return"}

IsCancel(c) == c \in {"wms.cancel", "cms.cancel"}

CancelsSent == SelectSeq(saga.calls, IsCancel)

\* C1: a saga run that fails at step k sends a cancel to the systems of
\* steps 1..k-1 in reverse step order: none after a failure at step 1, a CMS
\* CancelOrder after a failure at step 2, a WMS CANCEL_PACKAGE and then a CMS
\* CancelOrder after a failure at step 3.
C1_CompensationInReverseOrder ==
    SagaReturned =>
        /\ saga.failed_step = 0 => CancelsSent = << >>
        /\ saga.failed_step = 1 => CancelsSent = << >>
        /\ saga.failed_step = 2 => CancelsSent = <<"cms.cancel">>
        /\ saga.failed_step = 3 => CancelsSent = <<"wms.cancel", "cms.cancel">>

C1_Witness ==
    /\ SagaReturned
    /\ saga.failed_step = 3
    /\ saga.calls = <<"cms.register", "wms.add", "ros.optimize",
                      "wms.cancel", "cms.cancel">>

\* C2: a run that returns success=true has completed_steps equal to
\* [CMS_REGISTERED, WMS_RECEIVED, ROUTE_OPTIMIZED], skipped steps included;
\* a run that returns success=false has an error and completed_steps a
\* strict prefix of that list.
C2_CompletedSteps ==
    SagaReturned =>
        IF saga.result.success
        THEN saga.result.completed_steps = SagaSteps
        ELSE /\ saga.result.error # None
             /\ IsPrefixOf(saga.result.completed_steps, SagaSteps)
             /\ Len(saga.result.completed_steps) < Len(SagaSteps)

C2_Witness ==
    /\ SagaReturned
    /\ saga.result.success
    /\ saga.result.skipped_steps = <<"CMS_REGISTERED">>
    /\ saga.result.completed_steps = SagaSteps

\* C3 (as claimed): however often order.created is delivered, CMS, WMS and
\* ROS each hand out at most one reference for the order.
C3_AtMostOneReference ==
    /\ extCalls.cms <= 1
    /\ extCalls.wms <= 1
    /\ extCalls.ros <= 1

PrefixIndex(status) == IndexOf(STATUS_ORDER, status)

\* C4 (as claimed): the stored status never moves from a status of the
\* five-status prefix to a prefix status of smaller index.
C4_NoPrefixRegression ==
    [][(InSeq(STATUS_ORDER, order.status) /\ InSeq(STATUS_ORDER, order'.status))
         => PrefixIndex(order'.status) >= PrefixIndex(order.status)]_vars

\* the steps the skip rule skips for a probed status, as a table
SkippedFor(c) ==
    CASE c = "PENDING" -> << >>
      [] c = "CMS_REGISTERED" -> <<"CMS_REGISTERED">>
      [] c = "WMS_RECEIVED" -> <<"CMS_REGISTERED", "WMS_RECEIVED">>
      [] c = "ROUTE_OPTIMIZED" -> SagaSteps
      [] c = "READY" -> SagaSteps
      [] OTHER -> << >>

CallOf(step) ==
    CASE step = "CMS_REGISTERED" -> "cms.register"
      [] step = "WMS_RECEIVED" -> "wms.add"
      [] step = "ROUTE_OPTIMIZED" -> "ros.optimize"

\* step i was reached by the run: no earlier step failed
StepReached(i) == saga.failed_step = 0 \/ saga.failed_step >= i

\* C5: a step is skipped (recorded in skipped_steps and completed_steps, no
\* external call) exactly when the probed status is one of the five prefix
\* statuses with an index at least the step's; for any other status, or no
\* probe result, nothing is skipped and every step the run reaches calls its
\* external system.
C5_SkipRule ==
    SagaReturned =>
        /\ saga.result.skipped_steps = SkippedFor(saga.current_status)
        /\ \A i \in 1..Len(SagaSteps) :
             IF InSeq(saga.result.skipped_steps, SagaSteps[i])
             THEN /\ InSeq(saga.result.completed_steps, SagaSteps[i])
                  /\ ~InSeq(saga.calls, CallOf(SagaSteps[i]))
             ELSE StepReached(i) => InSeq(saga.calls, CallOf(SagaSteps[i]))

C5_Witness ==
    /\ SagaReturned
    /\ saga.current_status = "WMS_RECEIVED"
    /\ saga.result.skipped_steps = <<"CMS_REGISTERED", "WMS_RECEIVED">>
    /\ saga.calls = <<"ros.optimize">>

\* C6 (as claimed): when the saga fails on every delivery of order.created,
\* the message is retried and ends up, once, in the dead-letter queue with
\* x-retry-count = 3.
C6_FailedSagaReachesDlq ==
    (/\ cons.pc = "idle"
     /\ mainQ = << >>
     /\ retryQ = << >>
     /\ runs # << >>
     /\ \A i \in 1..Len(runs) : ~runs[i])
    => /\ Len(dlqQ) = 1
       /\ dlqQ[1].x_retry_count = 3

\* C10: a failing compensation leaves success=false and the error of the
\* step that failed, and a failed WMS cancel is still followed by the CMS
\* cancel.
C10_CompensationFailureKeepsError ==
    (SagaReturned /\ saga.comp_failed # {}) =>
        /\ ~saga.result.success
        /\ saga.failed_step \in {2, 3}
        /\ saga.result.error = StepError(saga.failed_step)
        /\ "wms.cancel" \in saga.comp_failed =>
              saga.calls[Len(saga.calls)] = "cms.cancel"

C10_Witness ==
    /\ SagaReturned
    /\ saga.failed_step = 3
    /\ saga.comp_failed = {"wms.cancel", "cms.cancel"}
    /\ saga.result.error = "ROS route optimisation failed"

----------------------------------------------------------------------------
\* Properties of the retry consumer

InQueue(q, m) == \E i \in 1..Len(q) : q[i].id = m

Copies(q, m) == Cardinality({i \in 1..Len(q) : q[i].id = m})

\* this step is the except branch of _process_with_retry
HandlerRaised ==
    /\ cons.pc = "handler"
    /\ cons'.pc # "handler"
    /\ fate'[cons.msg.id] # "acked"

\* this step is the publish that follows the ack in the DLQ branch
DlqPublished == cons.pc = "dlq_publish" /\ cons'.pc # "dlq_publish"

\* the retry count as the broker recorded it: deaths on the main queue
MainQueueDeaths(message) == DeathCount(message, MainQueue, "rejected")

\* C7: when the handler raises for a message whose retry count (x-death
\* count of the main queue, 0 if absent) is >= max_retries, the message is
\* acked on the main queue and one copy goes to the DLQ with
\* x-original-routing-key, x-retry-count = that count and x-service; when the
\* count is < max_retries the message is nacked without requeue and nothing
\* goes to the DLQ. A count of exactly max_retries takes the DLQ branch.
C7_RetryOrDeadLetter ==
    [][/\ HandlerRaised =>
            /\ cons.retry_count = MainQueueDeaths(cons.msg)
            /\ IF cons.retry_count >= max_retries
               THEN /\ cons'.pc = "dlq_publish"
                    /\ ~InQueue(mainQ', cons.msg.id)
                    /\ ~InQueue(retryQ', cons.msg.id)
               ELSE /\ cons'.pc = "idle"
                    /\ ~InQueue(mainQ', cons.msg.id)
                    /\ Copies(retryQ', cons.msg.id) = 1
                    /\ dlqQ' = dlqQ
       /\ DlqPublished =>
            /\ cons.retry_count >= max_retries
            /\ Copies(dlqQ, cons.msg.id) = 0
            /\ dlqQ' = Append(dlqQ,
                 [id |-> cons.msg.id, xdeath |-> cons.msg.xdeath,
                  x_original_routing_key |-> "order.created",
                  x_retry_count |-> MainQueueDeaths(cons.msg),
                  x_service |-> "integration_service"])
       /\ (~HandlerRaised /\ ~DlqPublished) => dlqQ' = dlqQ]_vars

C7_Witness ==
    /\ dlqQ # << >>
    /\ dlqQ[1].x_retry_count = max_retries
    /\ retryQ # << >>

CountUp(n) == [i \in 1..n |-> i - 1]

\* C8: a message whose handler raises on every delivery is handled exactly
\* max_retries+1 times, with retry counts 0..max_retries growing by one per
\* cycle; a failed message comes back to the main queue only by expiring in
\* the retry queue, never by a direct requeue.
C8_RetryCycle ==
    /\ [](\A m \in 1..NumMsgs :
            /\ seen[m] = CountUp(Len(seen[m]))
            /\ Len(seen[m]) <= max_retries + 1
            /\ fate[m] = "dlq" => Len(seen[m]) = max_retries + 1)
    /\ [][\A m \in 1..NumMsgs :
            /\ (HandlerRaised /\ cons.msg.id = m) => ~InQueue(mainQ', m)
            /\ (seen[m] # << >> /\ ~InQueue(mainQ, m) /\ InQueue(mainQ', m))
                 => /\ retryQ # << >>
                    /\ Head(retryQ).id = m
                    /\ retryQ' = Tail(retryQ)]_vars

C8_Witness ==
    \E m \in 1..NumMsgs : fate[m] = "dlq" /\ seen[m] = <<0, 1, 2, 3>>

Settled(m) == fate[m] \in {"acked", "dlq"}

\* C9: with a running consumer and an expiring retry queue, every message
\* that reaches the main queue is eventually acked after a successful
\* handler run or acked and placed in the DLQ; none cycles forever, and
\* messages behind a failed one are still processed.
C9_EventuallySettled ==
    /\ \A m \in 1..NumMsgs : (fate[m] = "live") ~> Settled(m)
    /\ [](\A m \in 1..NumMsgs :
            /\ fate[m] = "dlq" <=> InQueue(dlqQ, m)
            /\ Settled(m) => (~InQueue(mainQ, m) /\ ~InQueue(retryQ, m)))

C9_Witness ==
    /\ fate[1] = "dlq"
    /\ fate[2] = "acked"
    /\ InQueue(dlqQ, 1)

----------------------------------------------------------------------------
\* Properties of the order service

\* C11 (as claimed): under consume (no retry wrapper) a message whose handler
\* completes is acked, that is taken off the queue, and a message whose
\* handler fails is put back on the queue, to be delivered again.
C11_AckOrRequeue ==
    [][handle_status_update =>
         IF handler_raises_error(Head(statusQ))
         THEN InSeq(statusQ', Head(statusQ))
         ELSE statusQ' = Tail(statusQ)]_vars

CreatedEntry == [old_status |-> None, new_status |-> "PENDING"]

\* C12 (as claimed): the history of the order is a chain, first entry
\* (null -> PENDING) and every later old_status equal to the new_status of
\* the entry before it, also when sessions run transitions of the order at
\* the same time.
C12_HistoryIsChain ==
    /\ order.history[1] = CreatedEntry
    /\ \A i \in 2..Len(order.history) :
         order.history[i].old_status = order.history[i - 1].new_status

\* C13: every write of the status appends exactly one history entry, with
\* old_status the status the call read and new_status the status it wrote,
\* also when the two are equal; Create writes (null -> PENDING); the status
\* never changes without a new entry, and entries are never removed or edited.
C13_OneEntryPerWrite ==
    /\ [](order.history[1] = CreatedEntry)
    /\ [][/\ \A w \in Sessions :
               commit_transition(w) =>
                 /\ order'.status = txn[w].new_status
                 /\ order'.history =
                      Append(order.history,
                             [old_status |-> txn[w].old_status,
                              new_status |-> txn[w].new_status])
          /\ order'.status # order.status =>
               /\ Len(order'.history) = Len(order.history) + 1
               /\ order'.history[Len(order'.history)].new_status = order'.status
          /\ IsPrefixOf(order.history, order'.history)]_vars

C13_Witness ==
    /\ Len(order.history) = 3
    /\ order.history[2] = [old_status |-> "PENDING", new_status |-> "PICKING_UP"]
    /\ order.history[3] = [old_status |-> "PICKING_UP", new_status |-> "PICKING_UP"]

\* C14 (as claimed): delivery_attempts <= max_delivery_attempts in every
\* state, whatever driver updates were sent, DELIVERY_ATTEMPTED for an order
\* that is already FAILED or DELIVERED included.
C14_AttemptsWithinMax ==
    order.delivery_attempts <= order.max_delivery_attempts

\* C15: a driver update to DELIVERY_ATTEMPTED adds one to delivery_attempts;
\* the stored status is FAILED when the new value equals
\* max_delivery_attempts and DELIVERY_ATTEMPTED when it is smaller (attempts
\* 2 of 3 end as FAILED with 3 attempts).
C15_AttemptEscalation ==
    [][\A payload \in Payloads :
         (payload.status = "DELIVERY_ATTEMPTED" /\ driver_request(payload)) =>
           /\ order'.delivery_attempts = order.delivery_attempts + 1
           /\ order'.delivery_attempts = order.max_delivery_attempts
                => order'.status = "FAILED"
           /\ order'.delivery_attempts < order.max_delivery_attempts
                => order'.status = "DELIVERY_ATTEMPTED"
           /\ (order.delivery_attempts = 2 /\ order.max_delivery_attempts = 3)
                => (order'.status = "FAILED" /\ order'.delivery_attempts = 3)]_vars

C15_Witness ==
    /\ order.delivery_attempts = 3
    /\ order.max_delivery_attempts = 3
    /\ order.status = "FAILED"
    /\ Len(order.history) = 4
    /\ order.history[3].new_status = "DELIVERY_ATTEMPTED"
    /\ order.history[4] = [old_status |-> "DELIVERY_ATTEMPTED",
                           new_status |-> "FAILED"]

\* the history holds a transition to the status
HistoryHas(status) ==
    \E i \in 2..Len(order.history) : order.history[i].new_status = status

\* C16 (as claimed): cms_reference is set only if the history holds a
\* transition to CMS_REGISTERED, wms_reference only if it holds one to
\* WMS_RECEIVED, route_id only if it holds one to ROUTE_OPTIMIZED.
C16_ReferencesFollowHistory ==
    /\ order.cms_reference # None => HistoryHas("CMS_REGISTERED")
    /\ order.wms_reference # None => HistoryHas("WMS_RECEIVED")
    /\ order.route_id # None => HistoryHas("ROUTE_OPTIMIZED")

\* C16 (amended): cms_reference is set only if the history holds a transition
\* to CMS_REGISTERED, wms_reference only if it holds one to WMS_RECEIVED, and
\* route_id only if it holds one to READY, the status the Reactor writes for
\* order.route_optimized.
C16_ReferencesFollowStoredHistory ==
    /\ order.cms_reference # None => HistoryHas("CMS_REGISTERED")
    /\ order.wms_reference # None => HistoryHas("WMS_RECEIVED")
    /\ order.route_id # None => HistoryHas("READY")

C16_Witness ==
    /\ order.cms_reference = "ref-1"
    /\ order.route_id = "ref-1"
    /\ HistoryHas("CMS_REGISTERED")
    /\ HistoryHas("READY")
    /\ ~HistoryHas("ROUTE_OPTIMIZED")

PickupStatuses == {"PICKUP_ASSIGNED", "PICKING_UP", "PICKED_UP", "AT_WAREHOUSE"}

DeliveryStatuses == {"OUT_FOR_DELIVERY", "DELIVERY_ATTEMPTED", "DELIVERED"}

\* C17 (as claimed): pickup_driver_id is set whenever the status is
\* PICKUP_ASSIGNED, PICKING_UP, PICKED_UP or AT_WAREHOUSE, and
\* delivery_driver_id whenever it is OUT_FOR_DELIVERY, DELIVERY_ATTEMPTED or
\* DELIVERED, after any Reactor transitions and driver updates.
C17_DriverPresent ==
    /\ order.status \in PickupStatuses => order.pickup_driver_id # None
    /\ order.status \in DeliveryStatuses => order.delivery_driver_id # None

\* the Reactor's table as the specification gives it
ReactorTable(event) ==
    CASE event = "order.cms_registered" ->
             [status |-> "CMS_REGISTERED", reference |-> "cms_reference"]
      [] event = "order.wms_received" ->
             [status |-> "WMS_RECEIVED", reference |-> "wms_reference"]
      [] event = "order.route_optimized" ->
             [status |-> "READY", reference |-> "route_id"]
      [] event = "order.saga_failed" ->
             [status |-> "FAILED", reference |-> None]

\* this step handles an event of the stored order
HandlesStoredOrder == handle_status_update /\ Head(statusQ).order_id = "o1"

\* C18: for an existing order the Reactor writes CMS_REGISTERED and the
\* cms_reference of the event for order.cms_registered, WMS_RECEIVED and the
\* wms_reference for order.wms_received, READY (never ROUTE_OPTIMIZED) and
\* the route_id for order.route_optimized, FAILED and no reference for
\* order.saga_failed; the transition changes no other field of the order.
C18_ReactorTable ==
    [][HandlesStoredOrder =>
         LET body == Head(statusQ)
             row == ReactorTable(body.event)
         IN  /\ order'.status = row.status
             /\ order'.status # "ROUTE_OPTIMIZED"
             /\ order'.history =
                  Append(order.history,
                         [old_status |-> order.status, new_status |-> row.status])
             /\ \A f \in {"cms_reference", "wms_reference", "route_id"} :
                  order'[f] = IF f = row.reference /\ f \in DOMAIN body
                              THEN body[f] ELSE order[f]
             /\ \A f \in {"pickup_driver_id", "delivery_driver_id",
                          "delivery_attempts", "max_delivery_attempts"} :
                  order'[f] = order[f]]_vars

C18_Witness ==
    /\ order.status = "READY"
    /\ order.route_id = "ref-1"
    /\ order.wms_reference = "ref-1"
    /\ order.cms_reference = None
    /\ reactor = "assign"

\* the entries a step adds to a sequence
Added(old, new) == SubSeq(new, Len(old) + 1, Len(new))

\* C19: every transition the Reactor performs is followed by exactly one
\* notification.status_changed with the new status of that transition, so
\* READY and then PICKUP_ASSIGNED give two, READY first; an event whose order
\* does not exist gives none.
C19_OneNotificationPerTransition ==
    /\ [][(handle_status_update \/ auto_assign_pickup) =>
            LET entries == Added(order.history, order'.history)
                events == Added(notifs, notifs')
            IN  /\ IsPrefixOf(order.history, order'.history)
                /\ IsPrefixOf(notifs, notifs')
                /\ Len(entries) <= 1
                /\ Len(events) = Len(entries)
                /\ \A i \in 1..Len(entries) : events[i] = entries[i].new_status]_vars
    /\ [][(handle_status_update /\ Head(statusQ).order_id # "o1") =>
            (notifs' = notifs /\ order' = order)]_vars
    /\ [](reactor = "assign" =>
            (notifs # << >> /\ notifs[Len(notifs)] = "READY"))

C19_Witness ==
    /\ Len(notifs) = 2
    /\ notifs = <<"READY", "PICKUP_ASSIGNED">>
    /\ order.status = "PICKUP_ASSIGNED"
    /\ published = 2
    /\ statusQ = << >>

\* C20 (as claimed): after a READY transition the Reactor runs the pickup
\* assignment; the order moves to PICKUP_ASSIGNED, with the driver the
\* assigner selected, exactly when the assigner selected a driver; with an
\* empty roster nothing changes and the order stays READY.
C20_AssignedIffSelected ==
    [][auto_assign_pickup =>
         /\ order.status = "READY"
         /\ IF roster # << >>
            THEN /\ order'.status = "PICKUP_ASSIGNED"
                 /\ order'.pickup_driver_id = selected_driver(roster, "pickup")
            ELSE order' = order]_vars

\* the active load of a driver, as the claim counts it
Load(d, phase) ==
    LET table == <<order>> \o others
    IN  Cardinality(
          {i \in 1..Len(table) :
             IF phase = "pickup"
             THEN /\ table[i].status \in {"PICKUP_ASSIGNED", "PICKING_UP", "PICKED_UP"}
                  /\ table[i].pickup_driver_id = d
             ELSE /\ table[i].status \in {"OUT_FOR_DELIVERY", "DELIVERY_ATTEMPTED"}
                  /\ table[i].delivery_driver_id = d})

Assigned(o, phase) ==
    IF phase = "pickup" THEN o.pickup_driver_id ELSE o.delivery_driver_id

\* C21: for a non-empty roster assign_driver selects the roster driver of
\* minimum active load for the phase (drivers without active orders count
\* 0), the first in roster order among those of equal minimum load; a roster
\* of one driver yields that driver, and roster [d1, d2, d3] with two active
\* pickups for d1 yields d2.
C21_MinLoadFirstInRoster ==
    [][\A phase \in {"pickup", "delivery"} :
         (roster # << >> /\ assign_driver_call(phase)) =>
           LET d == Assigned(order', phase)
           IN  /\ InSeq(roster, d)
               /\ \A j \in 1..Len(roster) : Load(d, phase) <= Load(roster[j], phase)
               /\ \A j \in 1..(IndexOf(roster, d) - 1) :
                    Load(roster[j], phase) > Load(d, phase)
               /\ Len(roster) = 1 => d = roster[1]
               /\ (/\ roster = <<"driver1", "driver2", "driver3">>
                   /\ phase = "pickup"
                   /\ Load("driver1", "pickup") = 2
                   /\ Load("driver2", "pickup") = 0) => d = "driver2"]_vars

C21_Witness ==
    /\ roster = <<"driver1", "driver2", "driver3">>
    /\ Load("driver1", "pickup") = 2
    /\ order.pickup_driver_id = "driver2"
    /\ order.delivery_driver_id = "driver1"

----------------------------------------------------------------------------
\* Properties of the scenarios

\* order.created was delivered once and acknowledged, its run called the
\* three systems and succeeded, and the roster is not empty
HappyRun ==
    /\ roster # << >>
    /\ seen[1] = <<0>>
    /\ fate[1] = "acked"
    /\ runs = <<TRUE>>
    /\ saga.calls = <<"cms.register", "wms.add", "ros.optimize">>

StatusesOf(history) == [i \in 1..Len(history) |-> history[i].new_status]

HappyEnd ==
    /\ order.status = "PICKUP_ASSIGNED"
    /\ order.cms_reference # None
    /\ order.wms_reference # None
    /\ order.route_id # None
    /\ StatusesOf(order.history) =
         <<"PENDING", "CMS_REGISTERED", "WMS_RECEIVED", "READY", "PICKUP_ASSIGNED">>

\* C22: when order.created is delivered once, the three external calls
\* succeed and the roster is not empty, the order eventually reaches
\* PICKUP_ASSIGNED with cms_reference, wms_reference and route_id set and
\* history statuses PENDING, CMS_REGISTERED, WMS_RECEIVED, READY,
\* PICKUP_ASSIGNED, and stays so.
C22_HappyPath == HappyRun ~> []HappyEnd

C22_Witness ==
    /\ HappyRun
    /\ HappyEnd
    /\ statusQ = << >>
    /\ order.cms_reference = CmsRef(1)
    /\ order.pickup_driver_id = "driver1"

\* the run in progress, or the last one, found the order at WMS_RECEIVED and
\* is past its first two steps
RedeliveredAtWms ==
    /\ saga.current_status = "WMS_RECEIVED"
    /\ saga.pc \notin {"step1", "step2"}

\* order.created was delivered again for the order at WMS_RECEIVED, this
\* last run succeeded and was acknowledged, and the roster is not empty
RedeliveredRun ==
    /\ roster # << >>
    /\ RedeliveredAtWms
    /\ saga.pc = "idle"
    /\ saga.result.success
    /\ fate[1] = "acked"

WmsFailedRun ==
    /\ saga.failed_step = 2
    /\ saga.pc = "idle"
    /\ fate[1] = "acked"

\* every status event published so far has been handled to its end
AllConsumed ==
    /\ statusQ = << >>
    /\ reactor = "idle"
    /\ \A w \in Sessions : held[w].pc = "idle"

\* C24 (as claimed): when the WMS step fails, the order is FAILED, by the
\* transition of order.saga_failed, once all events of that run have been
\* consumed, also with several Reactor instances (the order.cms_registered
\* transition of the run does not come after it); CMS was sent a cancel
\* request and wms_reference is unset.
C24_WmsDownEndsFailed ==
    (WmsFailedRun /\ AllConsumed) =>
        /\ order.status = "FAILED"
        /\ order.history[Len(order.history)].new_status = "FAILED"
        /\ InSeq(saga.calls, "cms.cancel")
        /\ order.wms_reference = None

\* the event the claim expects for a completed step
ExpectedStepEvent(res, step) ==
    CASE step = "CMS_REGISTERED" ->
           IF res.cms_reference # None
           THEN [event |-> "order.cms_registered", order_id |-> "o1",
                 cms_reference |-> res.cms_reference]
           ELSE [event |-> "order.cms_registered", order_id |-> "o1"]
      [] step = "WMS_RECEIVED" ->
           IF res.wms_reference # None
           THEN [event |-> "order.wms_received", order_id |-> "o1",
                 wms_reference |-> res.wms_reference]
           ELSE [event |-> "order.wms_received", order_id |-> "o1"]
      [] step = "ROUTE_OPTIMIZED" ->
           IF res.route_id # None
           THEN [event |-> "order.route_optimized", order_id |-> "o1",
                 route_id |-> res.route_id]
           ELSE [event |-> "order.route_optimized", order_id |-> "o1"]

\* the events the claim expects of a run, in order
ExpectedEvents(res) ==
    [i \in 1..Len(res.completed_steps) |->
        ExpectedStepEvent(res, res.completed_steps[i])]
    \o (IF res.success THEN << >>
        ELSE <<[event |-> "order.saga_failed", order_id |-> "o1",
                error |-> res.error,
                completed_steps |-> res.completed_steps]>>)

\* C25: after a saga run the handler publishes one order.{step_lower} event
\* for every entry of completed_steps, skipped steps included, in step order
\* and with the reference of the step when the run obtained one; exactly when
\* success is false one order.saga_failed with error and completed_steps
\* follows the step events; nothing else is published.
C25_PublishedEvents ==
    /\ saga.pc \notin {"publish", "return"} => statusQ = << >>
    /\ saga.pc = "publish" =>
         /\ IsPrefixOf(statusQ, ExpectedEvents(saga.result))
         /\ Len(statusQ) < Len(ExpectedEvents(saga.result))
    /\ saga.pc = "return" => statusQ = ExpectedEvents(saga.result)

C25_Witness ==
    /\ saga.pc = "return"
    /\ ~saga.result.success
    /\ saga.result.skipped_steps = <<"CMS_REGISTERED">>
    /\ Len(statusQ) = 3
    /\ "cms_reference" \notin DOMAIN statusQ[1]
    /\ statusQ[2].wms_reference = WmsRef(1)
    /\ statusQ[3].event = "order.saga_failed"
    /\ statusQ[3].completed_steps = <<"CMS_REGISTERED", "WMS_RECEIVED">>

\* status, references and driver assignment of two versions of the order
SameOutcome(o, p) ==
    \A f \in {"status", "cms_reference", "wms_reference", "route_id",
              "pickup_driver_id", "delivery_driver_id"} : o[f] = p[f]

\* this step handles the second delivery of an event of the stored order
HandlesRedelivered ==
    /\ handle_status_update
    /\ Redelivered(Head(statusQ))
    /\ Head(statusQ).order_id = "o1"

\* C26 (as claimed): handling the second delivery of a saga event, at any
\* later point of the order's life, leaves status, references and driver
\* assignment as they were before it (for order.route_optimized: leaves the
\* references and drivers, on an order that was READY or PICKUP_ASSIGNED, to
\* the assignment that is computed again); only the history grows, and no
\* external system is called.
C26_RedeliveryIdempotent ==
    [][HandlesRedelivered =>
         /\ IsPrefixOf(order.history, order'.history)
         /\ extCalls' = extCalls
         /\ IF Head(statusQ).event = "order.route_optimized"
            THEN /\ order.status \in {"READY", "PICKUP_ASSIGNED"}
                 /\ SameOutcome([order EXCEPT !.status = "READY"], order')
            ELSE SameOutcome(order, order')]_vars

----------------------------------------------------------------------------
\* Properties of the correlation ids

\* a consumer takes the head of the queue in this step
Consumes(q) ==
    /\ queues[q] # << >>
    /\ \/ q = "integration_service.order_created" /\ consume_order_created
       \/ q = "order_service.status_updates" /\ consume_status_update
       \/ q = "notification_service.all_events" /\ consume_all_events

C28_OneCorrelationId ==
    \A m \in sent :
        m.trigger # None => m.headers.correlation_id = m.trigger

----------------------------------------------------------------------------
\* Properties of the protocol clients

\* C29 (as claimed): a 2xx CMS response without <CmsReference> makes step 1
\* fail, with no CMS_REGISTERED in completed_steps and no cms_reference
\* recorded; an ERR|... reply of WMS makes step 2 fail and starts the CMS
\* compensation.
C29_ParseFailureFailsStep ==
    [][/\ saga_step_1_call("no_reference") =>
            /\ saga'.failed_step = 1
            /\ saga'.result.error # None
            /\ ~InSeq(saga'.result.completed_steps, "CMS_REGISTERED")
            /\ saga'.result.cms_reference = None
       /\ saga_step_2_call("err") =>
            /\ saga'.failed_step = 2
            /\ saga'.result.error # None
            /\ ~InSeq(saga'.result.completed_steps, "WMS_RECEIVED")
            /\ saga'.result.wms_reference = None
            /\ saga'.pc = "compensate_cms"]_vars

----------------------------------------------------------------------------
\* Properties of the Reactor on messages it has no transition for

\* the message names no event of the Reactor's table, or no order
NotInTable(body) ==
    \/ "event" \notin DOMAIN body
    \/ body.event \notin {"order.cms_registered", "order.wms_received",
                          "order.route_optimized", "order.saga_failed"}
    \/ "order_id" \notin DOMAIN body
    \/ body.order_id = ""

UnhandledAtHead == statusQ # << >> /\ NotInTable(Head(statusQ))

\* C30: a message whose event is not in the Reactor's table, or that has no
\* order_id, changes nothing of the order (no transition, no history entry),
\* publishes no notification and starts no assignment; it is acked, so it
\* leaves the queue, is not held for redelivery, and is not delivered again.
C30_UnhandledEventIgnored ==
    /\ [][(handle_status_update /\ NotInTable(Head(statusQ))) =>
            /\ order' = order
            /\ notifs' = notifs
            /\ reactor' = "idle"
            /\ statusQ' = Tail(statusQ)
            /\ unacked' = << >>]_vars
    /\ UnhandledAtHead ~> (statusQ = << >> /\ unacked = << >>)

\* two messages were published and handled, one with the transition to
\* CMS_REGISTERED and one of UnhandledEvents, which left nothing
C30_Witness ==
    /\ published = 2
    /\ statusQ = << >>
    /\ unacked = << >>
    /\ reactor = "idle"
    /\ order.status = "CMS_REGISTERED"
    /\ Len(order.history) = 2
    /\ notifs = <<"CMS_REGISTERED">>

----------------------------------------------------------------------------
\* Properties of update_order_status

\* the columns of Order among the keys of the extra fields
ColumnsOf(extra_fields) == DOMAIN extra_fields \cap DOMAIN create_order

\* C31: update_order_status checks no legality. For the stored order it writes
\* the given status whatever the current one is, sets every extra field that
\* is a column of the order, appends the history entry (current -> given) and
\* returns the row; for an id of no order it returns nothing and changes no
\* order and no history.
C31_TransitionUnchecked ==
    [][\A order_id \in {"o1", "o2"}, new_status \in OrderStatus,
          extra_fields \in ExtraFieldChoices :
          update_order_status_call(order_id, new_status, extra_fields) =>
            IF order_id = "o1"
            THEN /\ order'.status = new_status
                 /\ \A f \in ColumnsOf(extra_fields) :
                        order'[f] = extra_fields[f]
                 /\ \A f \in DOMAIN order \ (ColumnsOf(extra_fields)
                                             \cup {"status", "history"}) :
                        order'[f] = order[f]
                 /\ order'.history =
                        Append(order.history,
                               [old_status |-> order.status,
                                new_status |-> new_status])
                 /\ returned' = <<order'>>
                 /\ others' = others
            ELSE /\ returned' = << >>
                 /\ order' = order
                 /\ others' = others]_vars

\* the order was moved from DELIVERED back to PENDING, with a reference set
\* by the same call
C31_Witness ==
    /\ Len(order.history) = 3
    /\ order.history[3] = [old_status |-> "DELIVERED", new_status |-> "PENDING"]
    /\ order.status = "PENDING"
    /\ order.cms_reference = "ref-1"
    /\ returned = <<order>>

----------------------------------------------------------------------------
\* Properties of the WebSocket fan-out

\* Order.client_id of the orders of the pushed events
OwnerOf(order_id) == IF order_id = "o1" THEN "A" ELSE "B"

\* C32 (as claimed): an order update is received only by sessions registered
\* under the client_id that owns the order.
C32_PushOnlyToOwner ==
    \A s \in WebSockets : \A i \in 1..Len(ws[s].inbox) :
        OwnerOf(ws[s].inbox[i].order_id) = ClientOf(s)

\* the session is in some list of the registry
Registered(s) ==
    \E i \in 1..Len(connections) : InSeq(connections[i].value, s)

\* C39 (as claimed): under any interleaving of accept, disconnect and
\* broadcast, the cleanup of a session ends without an exception, also when
\* a broadcast has already removed the session; the removal of the dead
\* sessions of a broadcast ends without an exception; and a session whose
\* cleanup has run is in no list of the registry.
C39_RegistryConsistent ==
    /\ \A s \in WebSockets : ws[s].raised = None
    /\ bcast.raised = None
    /\ \A s \in WebSockets : ws[s].pc = "closed" => ~Registered(s)

----------------------------------------------------------------------------
\* Properties of the driver status update

\* the statuses the claim lets a driver write
DriverStatuses ==
    {"PICKING_UP", "PICKED_UP", "AT_WAREHOUSE", "OUT_FOR_DELIVERY",
     "DELIVERY_ATTEMPTED", "DELIVERED", "FAILED"}

\* C33: a PATCH whose status is outside the seven driver statuses is answered
\* 400, and one for an id of no order 404, with the order, its history and
\* the published notifications unchanged; whatever a PATCH writes is one of
\* the seven statuses, so never a saga-prefix status, PICKUP_ASSIGNED or
\* CANCELLED.
C33_DriverUpdateRejected ==
    [][\A order_id \in {"o1", "o2"}, payload \in PatchPayloads :
          patch_order_status(order_id, payload) =>
            /\ payload.status \notin DriverStatuses =>
                 /\ returned' = <<[status_code |-> 400]>>
                 /\ UNCHANGED <<order, others, notifs>>
            /\ (payload.status \in DriverStatuses /\ order_id # "o1") =>
                 /\ returned' = <<[status_code |-> 404]>>
                 /\ UNCHANGED <<order, others, notifs>>
            /\ order' # order =>
                 /\ order'.status \in DriverStatuses
                 /\ order'.history[Len(order'.history)].new_status
                      \in DriverStatuses]_vars

\* a request was answered 400 after an earlier one was carried out
C33_Witness ==
    /\ returned = <<[status_code |-> 400]>>
    /\ Len(order.history) = 2
    /\ order.status = "PICKING_UP"
    /\ notifs = <<"PICKING_UP">>

\* this step carries out an AT_WAREHOUSE request for the stored order
AtWarehouseRequest(payload) ==
    /\ payload.status = "AT_WAREHOUSE"
    /\ patch_order_status("o1", payload)

\* what the request does apart from the pickup driver
AtWarehouseEffect ==
    /\ order'.status = "AT_WAREHOUSE"
    /\ order'.history[Len(order'.history)].new_status = "AT_WAREHOUSE"
    /\ roster # << >> =>
         order'.delivery_driver_id = selected_driver(roster, "delivery")
    /\ order'.delivery_attempts = order.delivery_attempts

\* C34 (as claimed): a driver update to AT_WAREHOUSE stores the delivery
\* driver the auto-assignment selects, also when the request names another
\* one, stores the status AT_WAREHOUSE, and leaves delivery_attempts and the
\* pickup driver unchanged.
C34_AtWarehouseAssigns ==
    [][\A payload \in PatchPayloads :
          AtWarehouseRequest(payload) =>
            /\ AtWarehouseEffect
            /\ order'.pickup_driver_id = order.pickup_driver_id]_vars

\* C34 (amended): the same, with the pickup driver left unchanged when the
\* request names none, and set to the pickup_driver_id of the request when
\* it names one.
C34_AtWarehouseAssignsAmended ==
    [][\A payload \in PatchPayloads :
          AtWarehouseRequest(payload) =>
            /\ AtWarehouseEffect
            /\ order'.pickup_driver_id =
                 IF payload.pickup_driver_id # None
                 THEN payload.pickup_driver_id
                 ELSE order.pickup_driver_id]_vars

\* an AT_WAREHOUSE request that named driver9 twice was carried out: the
\* selected delivery driver and the pickup driver of the request are stored
C34_Witness ==
    /\ order.status = "AT_WAREHOUSE"
    /\ roster = DefaultRoster
    /\ order.delivery_driver_id = "driver1"
    /\ order.pickup_driver_id = "driver9"
    /\ order.delivery_attempts = 0
    /\ returned = <<order>>

\* the DELIVERY_ATTEMPTED requests carried out so far: each appended one
\* history entry, to DELIVERY_ATTEMPTED or to FAILED
AttemptsApplied ==
    Cardinality({i \in 1..Len(order.history) :
                    order.history[i].new_status
                        \in {"DELIVERY_ATTEMPTED", "FAILED"}})

\* C35 (as claimed): when N DELIVERY_ATTEMPTED requests for the order have
\* been carried out, overlapping or not, and none is open, delivery_attempts
\* is N.
C35_NoLostAttempt ==
    OpenTxns = 0 => order.delivery_attempts = AttemptsApplied

----------------------------------------------------------------------------
\* Properties of concurrent assignments

\* C36 (as claimed): with the loads equal at the start and no assignment
\* released, the active pickup loads of any two roster drivers stay within 1
\* of each other, also when several Reactor instances assign at the same
\* time.
C36_LoadsWithinOne ==
    \A i, j \in 1..Len(roster) :
        driver_counts(roster[i], "pickup")
            <= driver_counts(roster[j], "pickup") + 1

----------------------------------------------------------------------------
\* Properties of the events of skipped steps

References == {"cms_reference", "wms_reference", "route_id"}

\* the event this step publishes is the one of a skipped step
PublishesSkippedStep ==
    /\ publish_step_event
    /\ InSeq(saga.result.skipped_steps,
             saga.result.completed_steps[saga.pub])

\* C37: the event published for a skipped step has the event name and the
\* order id and no reference; the Reactor transition of an event without
\* references leaves cms_reference, wms_reference and route_id of the order
\* as they are; and a stored reference changes only when the Reactor handles
\* an event that carries that reference, so never by the event of a skipped
\* step of a redelivery.
C37_SkippedStepKeepsReferences ==
    /\ [][PublishesSkippedStep =>
            DOMAIN statusQ'[Len(statusQ')] = {"event", "order_id"}]_vars
    /\ [][(handle_status_update /\ DOMAIN Head(statusQ) \cap References = {}) =>
            \A f \in References : order'[f] = order[f]]_vars
    /\ [][\A f \in References :
            (order[f] # None /\ order'[f] # order[f]) =>
                (handle_status_update /\ f \in DOMAIN Head(statusQ))]_vars

\* CMS registered the order once, the redelivered order.created skipped that
\* step, and the Reactor has written CMS_REGISTERED a second time with the
\* first reference still stored
C37_Witness ==
    /\ extCalls.cms = 1
    /\ InSeq(saga.result.skipped_steps, "CMS_REGISTERED")
    /\ order.cms_reference = CmsRef(1)
    /\ Cardinality({i \in 1..Len(order.history) :
                       order.history[i].new_status = "CMS_REGISTERED"}) = 2

----------------------------------------------------------------------------
\* Properties of the dead-letter branch under failures

\* the handler raised for m on a delivery with retry count >= max_retries
\* (a handler that returns acks the message instead)
RetriesExhausted(m) ==
    /\ seen[m] # << >>
    /\ seen[m][Len(seen[m])] >= max_retries
    /\ fate[m] # "acked"
    /\ ~(cons.pc = "handler" /\ cons.msg.id = m)

\* C38 (as claimed): a message that has exhausted its retries is on the main
\* queue, in the retry queue or in the DLQ, or the consumer is between its
\* ack and its publish to the DLQ exchange; it is in none of them at no
\* time, also when that publish fails.
C38_ExhaustedNeverLost ==
    \A m \in 1..NumMsgs :
        RetriesExhausted(m) =>
            \/ InQueue(mainQ, m)
            \/ InQueue(retryQ, m)
            \/ InQueue(dlqQ, m)
            \/ (cons.pc = "dlq_publish" /\ cons.msg.id = m)

----------------------------------------------------------------------------
\* Properties of the event flow

NoMessageInFlight == \A q \in DOMAIN queues : queues[q] = << >>

\* the position of a queue in the flow of one order
QueueRank(q) ==
    CASE q = "integration_service.order_created" -> 1
      [] q = "order_service.status_updates" -> 2
      [] q = "notification_service.all_events" -> 3
      [] q = BridgeQueue -> 4

ConsumerOf(q) ==
    CASE q = "integration_service.order_created" -> consume_order_created
      [] q = "order_service.status_updates" -> consume_status_update
      [] q = "notification_service.all_events" -> consume_all_events
      [] q = BridgeQueue -> consume_ws_notification

====
